---- MODULE Spec2Model ----
(***************************************************************************)
(* Iron Eye: the snatch session engine (src/lib/engine/snatchLogic.ts) and *)
(* the streaming Viterbi decoder (src/lib/engine/viterbiDecoder.ts).       *)
(*                                                                         *)
(* Units.  Image coordinates (0.0 top .. 1.0 bottom) are integers in       *)
(* hundredths, velocities are integers in hundredths of a metre per        *)
(* second, class scores are integers in units of 1.0 (every sum the        *)
(* decoder forms on them is exact in float32).                             *)
(***************************************************************************)
EXTENDS Integers, Sequences, FiniteSets, TLC

\* ------------------------------------------------------------------------
\* Phases (viterbiDecoder.ts:7-10); the order is the class index order.
\* ------------------------------------------------------------------------
PHASES ==
    << "STANDING", "HANDONBELL", "HIKE", "PULL", "FLOAT",
       "LOCKOUT", "DROP", "CATCH", "PARK" >>

Phase == { PHASES[i] : i \in 1..Len(PHASES) }

\* ------------------------------------------------------------------------
\* Session engine: thresholds (snatchLogic.ts THRESHOLDS)
\* ------------------------------------------------------------------------
SIDE_LOCK_NEAR_ANKLE == 12
PARK_VELOCITY_MAX == 50
RESET_DURATION_FRAMES == 30
RESET_TORSO_RATIO == 85
CALIBRATION_FRAMES == 30
PARK_DURATION_FRAMES == 15
PARK_CANCEL_VELOCITY == 300

\* Bounds of the model.
MaxReps == 2
MaxParkTimer == 17

\* ------------------------------------------------------------------------
\* Inputs of update(): poses and velocities.
\* A pose is the y coordinate (hundredths, growing downward) of the
\* keypoints the engine reads: 11/12 shoulders, 15/16 wrists, 23/24 hips,
\* 25/26 knees, 27/28 ankles (odd = left, even = right).  analysis.ts only
\* calls update() after FeatureBuilder.extract accepted the frame, so every
\* pose carries the full 33 keypoints.
\* ------------------------------------------------------------------------
MkPose(sh, wl, wr, hip, knee, ankle) ==
    [ y11 |-> sh, y12 |-> sh, y15 |-> wl, y16 |-> wr, y23 |-> hip,
      y24 |-> hip, y25 |-> knee, y26 |-> knee, y27 |-> ankle, y28 |-> ankle ]

PoseStand    == MkPose(30, 60, 60, 55, 75, 95)  \* upright, arms hanging
PoseHingeL   == MkPose(50, 90, 58, 60, 75, 95)  \* hinged, left hand on the bell
PoseHingeR   == MkPose(50, 58, 90, 60, 75, 95)  \* hinged, right hand on the bell
PoseOverhead == MkPose(30, 10, 60, 55, 75, 95)  \* upright, left arm overhead
PoseSquatL   == MkPose(30, 90, 60, 55, 75, 95)  \* torso upright, left hand on the bell
PoseTall     == MkPose(25, 60, 60, 55, 75, 95)  \* upright, torso stretched
PoseArmsUp   == MkPose(30, 10, 10, 55, 75, 95)  \* upright, both arms overhead

Abs(x) == IF x < 0 THEN -x ELSE x
Max(a, b) == IF a > b THEN a ELSE b
Min(a, b) == IF a < b THEN a ELSE b

VARIABLES
    state,          \* SnatchSessionEngine.state (the feedback string is left out)
    hasHiked,
    hasHitLockout,
    isParked,
    parkTimer,
    standTimer,
    calibration,    \* auto-calibration accumulator (neutralWristOffset left out)
    scriptPos,      \* observer: how much of Script the last updates have fed
    scriptBase,     \* observer: repCount when the script began
    liftStage,      \* observer: progress of the lift under way
    chainPos,       \* observer: position in a chained set
    decoderState,   \* ViterbiDecoder.state, as the phase name of the index
    pc,             \* where the caller of the decoder is: idle, called, returned
    callLogits,     \* decodeLast's argument logits, as a sequence of rows of C scores
    callSteps,      \* decodeLast's argument steps
    callSeed,       \* this.state as decodeLast read it on entry
    returned,       \* what the call returned ("NONE": nothing)
    prevReturned,   \* what the call before returned ("NONE": no call since construction or reset)
    currentPhase,   \* AnalysisService.currentPhase
    bufIdx,         \* PhaseClassifier.bufIdx: frames in the rolling buffer
    buffer,         \* PhaseClassifier.buffer, T * F numbers (followed in SpecBuffer)
    added,          \* observer: the feature vectors handed to addFrame, in order
    processOutcome, \* how the last process() call ended: none yet, returned, threw
    stoodRun,       \* observer: consecutive updates of the locked session that saw the subject stood up
    otherSideSeen,  \* observer: the locked session has seen the other side's setup geometry
    lastUnlock,     \* observer: how the last session ended ("none" while one is open)
    lastPose,          \* observer: the pose handed to update() last
    stillRun,          \* observer: updates in a row, in a locked session with a rep, that
                       \* found the subject hinged over the bell and still
    hikeEntries,       \* observer: updates of this session in which the phase changed to HIKE
    hikedSinceRep,     \* observer: such an update has come since the last rep or the lock
    isActive,          \* VideoIngestService.isActive
    isProcessingFrame, \* VideoIngestService.isProcessingFrame
    droppedFrames,     \* videoIngest.droppedFrames
    frameCount,        \* videoIngest.frameCount
    overlayPhase,      \* overlay.phase
    frameStage,        \* which await each processFrame in flight is at, by tick number
    tickNo,            \* observer: animation frames delivered to loop()
    arrived,           \* observer: ticks that found the video playing
    excused,           \* observer: frames whose processing ended before the session update
    lastStarted,       \* observer: tick number of the frame processFrame took last
    reportedPhase,     \* observer: what process() returned last
    rafPending,        \* animation frames requested of the browser and not yet delivered
    pageCalls,         \* upload page: which await each of its handlers under way is at
    sent,              \* images sent to the pose detector whose results are still to come
    onResults,         \* the call whose callback the detector holds (0: none registered)
    lastState,         \* FeatureBuilder.lastState (<< >> for null, else << the cached terms >>)
    lastTime,          \* FeatureBuilder.lastTime (ms)
    featureOut,        \* observer: the velocity terms extract() computed last
    extracted,         \* observer: the keypoints of the frame extract() accepted last
    calibrationStore,  \* the calibration store of stores/index.ts
    panelPhase,        \* CalibrationPanel: phase
    countdownValue,    \* CalibrationPanel: countdownValue
    timers,            \* CalibrationPanel: countdown intervals that are running
    tPoseProgress,     \* CalibrationPanel: tPoseProgress, in percent
    scanLoops,         \* CalibrationPanel: the scan loops with a frame pending, each with
                       \* the time its pose has been held (-1 for holdStartTime = null)
    scanFrameId,       \* CalibrationPanel: scanFrameId, as the loop it belongs to (0: unset)
    calibrateOutcome,  \* how the last calibration attempt ended
    isCalibrated,      \* upload page: isCalibrated
    filters,           \* PoseDetectorService.filters, one OneEuroFilter state per entry
    filterIn,          \* observer: value and time handed to each filter by the last call
    filterOut,         \* observer: what each filter returned from the last call
    clock              \* performance.now() as normalizeResults read it last (ms)

sessionVars ==
    << state, hasHiked, hasHitLockout, isParked, parkTimer, standTimer, calibration >>

\* The engine object as one record, so that the helpers of update() compose.
Engine ==
    [ state |-> state, hasHiked |-> hasHiked, hasHitLockout |-> hasHitLockout,
      isParked |-> isParked, parkTimer |-> parkTimer, standTimer |-> standTimer,
      calibration |-> calibration ]

InitialState ==
    [ isSessionActive |-> FALSE, activeSide |-> "NONE", repCount |-> 0,
      currentVelocity |-> 0, peakVelocity |-> 0, lastPhase |-> "STANDING",
      isInConcentric |-> FALSE ]

InitSession ==
    /\ state = InitialState
    /\ hasHiked = FALSE
    /\ hasHitLockout = FALSE
    /\ isParked = FALSE
    /\ parkTimer = 0
    /\ standTimer = 0
    /\ calibration = [ isComplete |-> FALSE, framesCaptured |-> 0, maxTorsoLength |-> 0 ]

\* reset(): everything but the calibration accumulator.
reset(e) ==
    [ e EXCEPT !.state = InitialState, !.hasHiked = FALSE, !.hasHitLockout = FALSE,
               !.isParked = FALSE, !.parkTimer = 0, !.standTimer = 0 ]

checkSetupGeometry(pose, side) ==
    LET wrist == IF side = "LEFT" THEN pose.y15 ELSE pose.y16
        knee  == IF side = "LEFT" THEN pose.y25 ELSE pose.y26
        ankle == IF side = "LEFT" THEN pose.y27 ELSE pose.y28
    IN  IF wrist < knee THEN FALSE
        ELSE Abs(wrist - ankle) < SIDE_LOCK_NEAR_ANKLE

detectLockPattern(pose) ==
    IF checkSetupGeometry(pose, "LEFT") THEN "LEFT"
    ELSE IF checkSetupGeometry(pose, "RIGHT") THEN "RIGHT"
    ELSE "NONE"

\* Mutant of accumulate: the torso maximum follows the latest frame.
accumulateLatestTorso(c, pose, currentTorso) ==
    [ isComplete |-> c.isComplete \/ c.framesCaptured + 1 >= CALIBRATION_FRAMES,
      framesCaptured |-> IF c.isComplete THEN c.framesCaptured ELSE c.framesCaptured + 1,
      maxTorsoLength |-> currentTorso ]

accumulate(c, pose, currentTorso) ==
    [ isComplete |-> c.isComplete \/ c.framesCaptured + 1 >= CALIBRATION_FRAMES,
      framesCaptured |-> IF c.isComplete THEN c.framesCaptured ELSE c.framesCaptured + 1,
      maxTorsoLength |-> Max(currentTorso, c.maxTorsoLength) ]

runAutoCalibration(e, pose) ==
    [ e EXCEPT !.calibration =
        accumulate(@, pose, Max(Abs(pose.y11 - pose.y23), Abs(pose.y12 - pose.y24))) ]

\* Mutant of checkStandingReset: the wrists are asked to be above the hips.
checkStandingResetWristsAbove(e, pose) ==
    IF ~e.calibration.isComplete THEN FALSE
    ELSE /\ 100 * Abs(pose.y11 - pose.y23) > e.calibration.maxTorsoLength * RESET_TORSO_RATIO
         /\ pose.y15 < pose.y23
         /\ pose.y16 < pose.y24

\* checkStandingReset (lines 305-314): currentTorso > maxTorsoLength * 0.85,
\* both sides scaled by 100, and each wrist below its hip.
checkStandingReset(e, pose) ==
    IF ~e.calibration.isComplete THEN FALSE
    ELSE /\ 100 * Abs(pose.y11 - pose.y23) > e.calibration.maxTorsoLength * RESET_TORSO_RATIO
         /\ pose.y15 > pose.y23
         /\ pose.y16 > pose.y24

lockSession(e, side) ==
    [ e EXCEPT !.state.activeSide = side, !.state.isSessionActive = TRUE,
               !.isParked = FALSE ]

\* Mutant of standingDebounce: a frame in which the subject is not stood up
\* leaves the count where it was.
standingDebounceNoRestart(e, pose) ==
    IF checkStandingReset(e, pose)
    THEN IF e.standTimer + 1 > RESET_DURATION_FRAMES
         THEN reset(e)
         ELSE [ e EXCEPT !.standTimer = @ + 1 ]
    ELSE e

\* The standing debounce shared by the false-start branch (lines 220-228) and the
\* session-end branch (lines 248-256) of manageActiveSession.
standingDebounce(e, pose) ==
    IF checkStandingReset(e, pose)
    THEN IF e.standTimer + 1 > RESET_DURATION_FRAMES
         THEN reset(e)
         ELSE [ e EXCEPT !.standTimer = @ + 1 ]
    ELSE [ e EXCEPT !.standTimer = 0 ]

\* Mutant of parkDetection: the first hinged and still update parks the session.
parkDetectionAtOnce(e, pose, velocityMps) ==
    IF /\ checkSetupGeometry(pose, IF e.state.activeSide = "NONE" THEN "RIGHT"
                                   ELSE e.state.activeSide)
       /\ Abs(velocityMps) < PARK_VELOCITY_MAX
    THEN [ e EXCEPT !.parkTimer = @ + 1, !.isParked = TRUE ]
    ELSE [ e EXCEPT !.parkTimer = 0 ]

\* 2. PARK DETECTION (lines 233-244).
parkDetection(e, pose, velocityMps) ==
    IF /\ checkSetupGeometry(pose, IF e.state.activeSide = "NONE" THEN "RIGHT"
                                   ELSE e.state.activeSide)
       /\ Abs(velocityMps) < PARK_VELOCITY_MAX
    THEN [ e EXCEPT !.parkTimer = @ + 1,
                    !.isParked = (@ \/ e.parkTimer + 1 > PARK_DURATION_FRAMES) ]
    ELSE [ e EXCEPT !.parkTimer = 0 ]

\* The velocity spike that cancels a park (lines 258-262).
parkCancel(e, velocityMps) ==
    IF Abs(velocityMps) > PARK_CANCEL_VELOCITY
    THEN [ e EXCEPT !.isParked = FALSE, !.parkTimer = 0 ]
    ELSE e

\* 3. SESSION END (lines 247-263): e is the engine after park detection.
sessionEnd(e, pose, velocityMps) ==
    IF e.isParked THEN parkCancel(standingDebounce(e, pose), velocityMps) ELSE e

manageActiveSession(e, pose, velocityMps) ==
    IF e.state.repCount = 0
    THEN standingDebounce(e, pose)
    ELSE sessionEnd(parkDetection(e, pose, velocityMps), pose, velocityMps)

trackVelocity(e, phase, velocity) ==
    IF phase \in { "PULL", "FLOAT" }
    THEN [ e EXCEPT !.state.isInConcentric = TRUE,
                    !.state.peakVelocity = IF velocity > @ THEN velocity ELSE @ ]
    ELSE IF phase \in { "HIKE", "DROP" }
    THEN [ e EXCEPT !.state.isInConcentric = FALSE ]
    ELSE e

\* Mutant of enterPowerPhase: the new rep also restarts the count.
enterPowerPhaseClearsCount(e, current) ==
    IF current = "HIKE"
    THEN [ e EXCEPT !.hasHiked = TRUE, !.hasHitLockout = FALSE, !.state.peakVelocity = 0,
                    !.state.repCount = 0 ]
    ELSE e

\* A. current = HIKE (lines 337-342).
enterPowerPhase(e, current) ==
    IF current = "HIKE"
    THEN [ e EXCEPT !.hasHiked = TRUE, !.hasHitLockout = FALSE, !.state.peakVelocity = 0 ]
    ELSE e

\* B. current = LOCKOUT or CATCH (lines 343-348).
reachTop(e, current) ==
    IF current \in { "LOCKOUT", "CATCH" } /\ e.hasHiked
    THEN [ e EXCEPT !.hasHitLockout = TRUE ]
    ELSE e

\* Mutant of creditRep: the rep is credited on reaching the top, not on leaving it.
creditRepOnTopEntry(e, prev, current) ==
    IF current \in { "LOCKOUT", "CATCH" } /\ e.hasHitLockout
    THEN [ e EXCEPT !.state.repCount = @ + 1, !.hasHitLockout = FALSE, !.hasHiked = FALSE ]
    ELSE e

\* C. rep complete (lines 349-356).
creditRep(e, prev, current) ==
    IF /\ prev \in { "LOCKOUT", "CATCH" }
       /\ current \in { "DROP", "PARK" }
       /\ e.hasHitLockout
    THEN [ e EXCEPT !.state.repCount = @ + 1, !.hasHitLockout = FALSE, !.hasHiked = FALSE ]
    ELSE e

handlePhaseTransitions(e, current) ==
    IF current = e.state.lastPhase THEN e
    ELSE creditRep(reachTop(enterPowerPhase(e, current), current),
                   e.state.lastPhase, current)

\* Mutant of lockOrRun: lock detection runs on every update, locked or not.
lockOrRunRedetect(e, phase, pose, velocityMps) ==
    IF detectLockPattern(pose) # "NONE"
    THEN lockSession(e, detectLockPattern(pose))
    ELSE IF ~e.state.isSessionActive THEN e
    ELSE handlePhaseTransitions(
             trackVelocity(manageActiveSession(e, pose, velocityMps), phase, velocityMps),
             phase)

\* The two branches of update() (lines 202-209); e is the engine after
\* runAutoCalibration.
lockOrRun(e, phase, pose, velocityMps) ==
    IF ~e.state.isSessionActive
    THEN IF detectLockPattern(pose) # "NONE"
         THEN lockSession(e, detectLockPattern(pose))
         ELSE e
    ELSE handlePhaseTransitions(
             trackVelocity(manageActiveSession(e, pose, velocityMps), phase, velocityMps),
             phase)

\* update(phase, pose, velocityMps) as a function of the engine record.
updateEngine(e, phase, pose, velocityMps) ==
    [ lockOrRun(runAutoCalibration(e, pose), phase, pose, velocityMps)
        EXCEPT !.state.lastPhase = phase, !.state.currentVelocity = velocityMps ]

update(phase, pose, velocityMps) ==
    \E e \in { updateEngine(Engine, phase, pose, velocityMps) } :
        /\ state.repCount < MaxReps
        /\ parkTimer < MaxParkTimer
        /\ state' = e.state
        /\ hasHiked' = e.hasHiked
        /\ hasHitLockout' = e.hasHitLockout
        /\ isParked' = e.isParked
        /\ parkTimer' = e.parkTimer
        /\ standTimer' = e.standTimer
        /\ calibration' = e.calibration

\* ------------------------------------------------------------------------
\* Viterbi decoder (viterbiDecoder.ts)
\* ------------------------------------------------------------------------
SELF_TRANSITION_BONUS == 2
TRANSITION_PENALTY == 0
ILLEGAL_PENALTY == -1000

\* The values a score takes besides a number: -Infinity, and the NaN of an
\* arithmetic operation on an undefined element of logits.
NegInf == -1000000000
NaN == 1000000000

PHASE_MAP(p) == CHOOSE i \in 1..Len(PHASES) : PHASES[i] = p

TRANSITION_GRAMMAR ==
    [ p \in Phase |->
        CASE p = "STANDING"   -> { "STANDING", "HANDONBELL" }
          [] p = "HANDONBELL" -> { "HANDONBELL", "HIKE", "STANDING" }
          [] p = "HIKE"       -> { "HIKE", "PULL" }
          [] p = "PULL"       -> { "PULL", "FLOAT", "DROP" }
          [] p = "FLOAT"      -> { "FLOAT", "LOCKOUT", "DROP" }
          [] p = "LOCKOUT"    -> { "LOCKOUT", "DROP", "PARK" }
          [] p = "DROP"       -> { "DROP", "CATCH", "STANDING" }
          [] p = "CATCH"      -> { "CATCH", "PARK", "STANDING", "PULL" }
          [] p = "PARK"       -> { "PARK", "STANDING" } ]

\* Number of classes.
C == Len(PHASES)

\* F applied to the value of v, v evaluated once.
Eval(v, F(_)) == CHOOSE r \in { F(x) : x \in { v } } : TRUE

\* A Float32Array(C) filled cell by cell.
scoreArray(cell) ==
    << cell[1], cell[2], cell[3], cell[4], cell[5], cell[6], cell[7], cell[8], cell[9] >>

\* Mutant of buildTransitionMatrix: the diagonal gets no bonus.
buildTransitionMatrixNoBonus ==
    scoreArray([from \in 1..C |-> scoreArray([to \in 1..C |->
        IF PHASES[to] \in TRANSITION_GRAMMAR[PHASES[from]]
        THEN TRANSITION_PENALTY ELSE ILLEGAL_PENALTY])])

\* buildTransitionMatrix(): matrix[from][to], filled with the penalty, then
\* the grammar's edges set to the bonus (from = to) or the switch cost.
buildTransitionMatrix ==
    scoreArray([from \in 1..C |-> scoreArray([to \in 1..C |->
        IF PHASES[to] \in TRANSITION_GRAMMAR[PHASES[from]]
        THEN IF from = to THEN SELF_TRANSITION_BONUS ELSE TRANSITION_PENALTY
        ELSE ILLEGAL_PENALTY])])

\* logits[t * C + s], s an index of PHASES: undefined past the end of the array.
logitAt(logits, t, s) == IF t + 1 <= Len(logits) THEN logits[t + 1][s] ELSE NaN

\* a + b + c on numbers, -Infinity and NaN (b is a matrix entry, always a number).
add3(a, b, c) ==
    IF a = NaN \/ c = NaN THEN NaN
    ELSE IF a = NegInf \/ c = NegInf THEN NegInf
    ELSE a + b + c

\* x > y on numbers, -Infinity and NaN.
greater(x, y) ==
    IF x = NaN \/ y = NaN THEN FALSE
    ELSE IF x = NegInf THEN FALSE
    ELSE IF y = NegInf THEN TRUE
    ELSE x > y

\* Mutant of initScores: every call starts from STANDING.
initScoresFromStanding(st, logits) ==
    scoreArray([s \in 1..C |->
        add3(0, buildTransitionMatrix[PHASE_MAP("STANDING")][s], logitAt(logits, 0, s))])

\* 1. Initialize t=0 from the persisted state (lines 80-84).
initScores(st, logits) ==
    scoreArray([s \in 1..C |-> add3(0, buildTransitionMatrix[PHASE_MAP(st)][s], logitAt(logits, 0, s))])

\* Mutant of transitionScore: the transition cost is left out of the sum.
transitionScoreNoMatrix(prevScores, logits, t, s, p) ==
    add3(prevScores[p], 0, logitAt(logits, t, s))

\* score = prevScores[p] + trans[p][s] + logits[offset + s] (line 94).
transitionScore(prevScores, logits, t, s, p) ==
    add3(prevScores[p], buildTransitionMatrix[p][s], logitAt(logits, t, s))

\* What the loop "if (score > maxScore) maxScore = score", started at
\* -Infinity, leaves in maxScore after a set of scores: NaN never passes the
\* test (lines 91-98).
maxScoreOf(scores) ==
    IF \A x \in scores : ~greater(x, NegInf) THEN NegInf
    ELSE CHOOSE m \in scores : greater(m, NegInf) /\ \A x \in scores : ~greater(x, m)

\* One row of 2. Forward Viterbi (lines 88-101).
forwardStep(prevScores, logits, t) ==
    scoreArray([s \in 1..C |->
        Eval({ transitionScore(prevScores, logits, t, s, p) : p \in 1..C }, maxScoreOf)])

\* The loop for (t = 1; t < steps; t++) (line 87).
RECURSIVE forward(_, _, _, _)
forward(prevScores, logits, t, steps) ==
    IF t < steps
    THEN Eval(forwardStep(prevScores, logits, t),
              LAMBDA currScores : forward(currScores, logits, t + 1, steps))
    ELSE prevScores

\* 3. Select Winner (lines 105-112): bestIdx starts at 0 and moves to s only
\* when prevScores[s] > bestScore, so it ends at the first index holding the
\* largest score, or stays at 0 when no score passes "> -Infinity".
selectWinner(prevScores) ==
    IF \A s \in 1..C : ~greater(prevScores[s], NegInf) THEN 1
    ELSE CHOOSE s \in 1..C :
            /\ greater(prevScores[s], NegInf)
            /\ \A j \in 1..C :
                  /\ ~greater(prevScores[j], prevScores[s])
                  /\ j < s => greater(prevScores[s], prevScores[j])

\* decodeLast(logits, steps) as a function of the persisted state.
decodeLastResult(st, logits, steps) ==
    Eval(initScores(st, logits),
         LAMBDA scores0 : PHASES[Eval(forward(scores0, logits, 1, steps), selectWinner)])

decoderVars ==
    << decoderState, pc, callLogits, callSteps, callSeed, returned, prevReturned >>

InitDecoder ==
    /\ decoderState = "STANDING"
    /\ pc = "idle"
    /\ callLogits = << >>
    /\ callSteps = 0
    /\ callSeed = "NONE"
    /\ returned = "NONE"
    /\ prevReturned = "NONE"

\* A caller binds the arguments of decodeLast.
Invoke(logits, steps) ==
    /\ pc = "idle"
    /\ pc' = "called"
    /\ callLogits' = logits
    /\ callSteps' = steps
    /\ UNCHANGED << decoderState, callSeed, returned, prevReturned >>

\* The body of decodeLast (lines 72-116).
decodeLast ==
    /\ pc = "called"
    /\ pc' = "returned"
    /\ callSeed' = decoderState
    /\ \E best \in { decodeLastResult(decoderState, callLogits, callSteps) } :
          /\ decoderState' = best
          /\ returned' = best
    /\ UNCHANGED << callLogits, callSteps, prevReturned >>

\* The caller has taken the result; the arguments and locals of the call are gone.
Return ==
    /\ pc = "returned"
    /\ pc' = "idle"
    /\ prevReturned' = returned
    /\ callLogits' = << >>
    /\ callSteps' = 0
    /\ callSeed' = "NONE"
    /\ returned' = "NONE"
    /\ UNCHANGED decoderState

\* reset() (lines 120-122).
decoderReset ==
    /\ pc = "idle"
    /\ decoderState' = "STANDING"
    /\ prevReturned' = "NONE"
    /\ UNCHANGED << pc, callLogits, callSteps, callSeed, returned >>

\* Inputs of the decoder: a call's rows each favour one phase by the call's
\* margin, or favour none; a call passes the rows it asks for, or one row fewer.
MaxRows == 2
Margins == { 1, 3, 1001, 1002 }

RowFavouring(q, m) == [ s \in 1..C |-> IF PHASES[s] = q THEN m ELSE 0 ]

RowSeqs(m, n) == [ 1..n -> { RowFavouring(q, m) : q \in Phase \cup { "NONE" } } ]

\* The subject stands upright and still until the warm-up of the auto-calibration
\* is over (the first CALIBRATION_FRAMES frames of a recording).
WarmUp(phase, pose, velocityMps) ==
    ~calibration.isComplete => (phase = "STANDING" /\ pose = PoseStand /\ velocityMps = 0)

\* ------------------------------------------------------------------------
\* Analysis service (analysis.ts) and phase classifier (phaseClassifier.ts)
\* ------------------------------------------------------------------------
\* config.model.frame_window, the T of the classifier (a value of config.json).
FrameWindow == 2

analysisVars == << currentPhase, bufIdx, processOutcome >>

InitAnalysis ==
    /\ currentPhase = "STANDING"
    /\ bufIdx = 0
    /\ processOutcome = "none"

\* addFrame (phaseClassifier.ts:147-165): bufIdx grows until the window is full.
addFrame(idx) == IF idx >= FrameWindow THEN idx ELSE idx + 1

\* config.model.feature_dim, the F of the classifier, as followed here.
FeatureDim == 2
\* addFrame calls followed.
MaxAdded == 5

bufferVars == << buffer, added >>

\* The buffer load() allocates (lines 136-139): T * F zeros.
InitBuffer ==
    /\ buffer = [ i \in 1..(FrameWindow * FeatureDim) |-> 0 ]
    /\ added = << >>

\* Float32Array.copyWithin(0, k): the elements from index k on move to the front.
copyWithin(buf, k) ==
    [ i \in 1..Len(buf) |-> IF i + k <= Len(buf) THEN buf[i + k] ELSE buf[i] ]

\* for (i < F) buffer[start + i] = features[i], start counted from 0.
writeAt(buf, start, features) ==
    [ i \in 1..Len(buf) |-> IF i > start /\ i <= start + FeatureDim
                            THEN features[i - start] ELSE buf[i] ]

\* Mutant of shiftAppend: the buffer is shifted by one number, not by one frame.
shiftAppendByOne(buf, features) ==
    writeAt(copyWithin(buf, 1), (FrameWindow - 1) * FeatureDim, features)

\* Rolling Buffer Logic: Shift Left, Append Right (lines 155-158).
shiftAppend(buf, features) ==
    writeAt(copyWithin(buf, FeatureDim), (FrameWindow - 1) * FeatureDim, features)

\* addFrame(features) on the buffer (lines 147-165), config loaded.
addFrameCall(features) ==
    /\ Len(added) < MaxAdded
    /\ buffer' = IF bufIdx >= FrameWindow THEN shiftAppend(buffer, features)
                 ELSE writeAt(buffer, bufIdx * FeatureDim, features)
    /\ bufIdx' = addFrame(bufIdx)
    /\ added' = Append(added, features)
    /\ UNCHANGED << currentPhase, processOutcome >>

\* What session.run hands to the decoder: a full window of equal rows or a
\* single row, each row favouring one phase or none.
WindowLogits ==
    { [ t \in 1..n |-> RowFavouring(q, 3) ] :
        q \in Phase \cup { "NONE" }, n \in { 1, FrameWindow } }

\* decodeLast(logits, T) over those outputs, by the class index of the persisted state.
decodeWindow ==
    scoreArray([ i \in 1..C |->
        { decodeLastResult(PHASES[i], logits, FrameWindow) : logits \in WindowLogits } ])

\* classify (phaseClassifier.ts:167-201), the results it can give: null
\* ("NONE") while the buffer fills or when inference throws, else what
\* decodeLast(logits, T) returns.
classify(idx, dec) ==
    IF idx < FrameWindow THEN { "NONE" }
    ELSE { "NONE" } \cup decodeWindow[PHASE_MAP(dec)]

\* 3. CLASSIFY (analysis.ts:66-69): currentPhase takes a non-null result.
classified(cur, newPhase) == IF newPhase # "NONE" THEN newPhase ELSE cur

\* RULE: If Geometry is Locked but Reps=0, force HANDONBELL (analysis.ts:79-84).
\* The branch calls viterbiDecoder.forceState, which ViterbiDecoder does not
\* define: the call throws a TypeError and process() ends there.
driftOverride(e, cur) ==
    e.state.isSessionActive /\ e.state.repCount = 0 /\ cur = "STANDING"

\* Mutant of unlockRule: the decoder is never reset on unlock.
unlockRuleNever(e, cur) == FALSE

\* RULE: If Session Unlock, Reset Viterbi (analysis.ts:87-90).
unlockRule(e, cur) == e.state.activeSide = "NONE" /\ cur # "STANDING"

\* process(pose) on a frame whose features are valid (analysis.ts:37-101);
\* velocityMps is what featureBuilder.extract returned with the vector.  With
\* warm, the frames fed before the calibration completes are those of WarmUp.
processWith(pose, velocityMps, warm) ==
    /\ state.repCount < MaxReps
    /\ parkTimer < MaxParkTimer
    /\ \E newPhase \in classify(addFrame(bufIdx), decoderState) :
       \E cur \in { classified(currentPhase, newPhase) } :
       \E e \in { updateEngine(Engine, cur, pose, velocityMps) } :
          /\ warm => WarmUp(cur, pose, velocityMps)
          /\ bufIdx' = addFrame(bufIdx)
          /\ state' = e.state
          /\ hasHiked' = e.hasHiked
          /\ hasHitLockout' = e.hasHitLockout
          /\ isParked' = e.isParked
          /\ parkTimer' = e.parkTimer
          /\ standTimer' = e.standTimer
          /\ calibration' = e.calibration
          /\ IF driftOverride(e, cur)
             THEN /\ processOutcome' = "threw"
                  /\ currentPhase' = cur
                  /\ decoderState' = classified(decoderState, newPhase)
             ELSE /\ processOutcome' = "returned"
                  /\ IF unlockRule(e, cur)
                     THEN currentPhase' = "STANDING" /\ decoderState' = "STANDING"
                     ELSE currentPhase' = cur /\ decoderState' = classified(decoderState, newPhase)

\* analysisService.reset() (analysis.ts:103-108).
process(pose, velocityMps) == processWith(pose, velocityMps, TRUE)

analysisReset ==
    /\ \E e \in { reset(Engine) } :
          /\ state' = e.state
          /\ hasHiked' = e.hasHiked
          /\ hasHitLockout' = e.hasHitLockout
          /\ isParked' = e.isParked
          /\ parkTimer' = e.parkTimer
          /\ standTimer' = e.standTimer
          /\ calibration' = e.calibration
    /\ currentPhase' = "STANDING"
    /\ decoderState' = "STANDING"
    /\ processOutcome' = "none"
    /\ UNCHANGED bufIdx

\* ------------------------------------------------------------------------
\* Calibration store (stores/index.ts) as read by the feature builder.
\* ------------------------------------------------------------------------
defaultCalibration == [ heightInches |-> 70, pxPerMeter |-> 0, quality |-> "none" ]

InitCalibrationStore == calibrationStore = defaultCalibration

\* setHeight (stores/index.ts:71-73).
setHeight(heightInches) ==
    calibrationStore' = [ calibrationStore EXCEPT !.heightInches = heightInches ]

\* ------------------------------------------------------------------------
\* Calibration panel (CalibrationPanel.svelte) and the manual calibration of
\* the upload page (routes/upload/+page.svelte).  Coordinates are hundredths
\* of the image, scores hundredths, times milliseconds.
\* ------------------------------------------------------------------------
REQUIRED_HOLD_MS == 1500
T_POSE_TOLERANCE == 15

\* The time between two animation frames of the scan loop.
ScanTickMs == 500
\* Countdown intervals and scan loops that may be alive at once.
MaxTimers == 2
MaxLoops == 2

panelVars == << panelPhase, countdownValue, timers, tPoseProgress, scanLoops, scanFrameId,
                calibrateOutcome, isCalibrated >>

InitPanel ==
    /\ panelPhase = "setup"
    /\ countdownValue = 5
    /\ timers = 0
    /\ tPoseProgress = 0
    /\ scanLoops = << >>
    /\ scanFrameId = 0
    /\ calibrateOutcome = "none"
    /\ isCalibrated = FALSE

\* What poseService.getLastResult() hands to the panel: how many landmarks the
\* result carries (0 for null), the lowest score among shoulders, elbows and
\* wrists, and where shoulders (11, 12) and wrists (15, 16) are.
PanelFrame(count, score, x15, x16, y15, y16) ==
    [ count |-> count, score |-> score, x11 |-> 45, x12 |-> 55, y11 |-> 30, y12 |-> 30,
      x15 |-> x15, x16 |-> x16, y15 |-> y15, y16 |-> y16 ]

TPoseFrame == PanelFrame(33, 90, 20, 80, 30, 30)
DimFrame == PanelFrame(33, 50, 20, 80, 30, 30)
ArmsDownFrame == PanelFrame(33, 90, 44, 56, 60, 60)
NoPoseFrame == PanelFrame(0, 0, 0, 0, 0, 0)

PanelFrames == { TPoseFrame, DimFrame, ArmsDownFrame, NoPoseFrame }
Heights == { 66, 70 }

\* checkTPose (lines 68-85): 0.8 and the average of the shoulders scaled to integers.
checkTPose(pose) ==
    /\ pose.count >= 33
    /\ pose.score >= 60
    /\ 10 * Abs(pose.x15 - pose.x11) >= 8 * Abs(pose.x11 - pose.x12)
    /\ 10 * Abs(pose.x16 - pose.x12) >= 8 * Abs(pose.x11 - pose.x12)
    /\ Abs(2 * pose.y15 - (pose.y11 + pose.y12)) < 2 * T_POSE_TOLERANCE
    /\ Abs(2 * pose.y16 - (pose.y11 + pose.y12)) < 2 * T_POSE_TOLERANCE

withoutLoop(id) == [ l \in DOMAIN scanLoops \ { id } |-> scanLoops[l] ]

withLoop(id, held) ==
    [ l \in DOMAIN scanLoops \cup { id } |-> IF l = id THEN held ELSE scanLoops[l] ]

\* startSequence (lines 42-56), the button of the setup phase.
startSequence(heightInches) ==
    /\ panelPhase = "setup"
    /\ timers < MaxTimers
    /\ setHeight(heightInches)
    /\ panelPhase' = "countdown"
    /\ countdownValue' = 5
    /\ timers' = timers + 1
    /\ UNCHANGED << tPoseProgress, scanLoops, scanFrameId, calibrateOutcome, isCalibrated >>

\* startScanning (lines 87-114): a new loop with holdStartTime = null.
startScanning(id) ==
    /\ scanLoops' = withLoop(id, -1)
    /\ scanFrameId' = id

\* One tick of a countdown interval (lines 48-55).
countdownTick ==
    /\ timers > 0
    /\ countdownValue' = countdownValue - 1
    /\ IF countdownValue - 1 <= 0
       THEN /\ (1..MaxLoops) \ DOMAIN scanLoops # {}
            /\ timers' = timers - 1
            /\ panelPhase' = "scan"
            /\ startScanning(CHOOSE id \in (1..MaxLoops) \ DOMAIN scanLoops :
                                \A l \in (1..MaxLoops) \ DOMAIN scanLoops : id <= l)
       ELSE UNCHANGED << timers, panelPhase, scanLoops, scanFrameId >>
    /\ UNCHANGED << tPoseProgress, calibrateOutcome, isCalibrated, calibrationStore >>

\* cancelSequence (lines 58-62), the button of the countdown and scan phases.
cancelSequence ==
    /\ panelPhase \in { "countdown", "scan" }
    /\ panelPhase' = "setup"
    /\ scanLoops' = withoutLoop(scanFrameId)
    /\ tPoseProgress' = 0
    /\ UNCHANGED << countdownValue, timers, scanFrameId, calibrateOutcome, isCalibrated,
                    calibrationStore >>

\* completeCalibration (lines 116-126).  Line 117 calls
\* calibration.calibrateFromPose, which the store returned by
\* createCalibrationStore (stores/index.ts:66-99) does not have: the call throws
\* a TypeError, and neither the success phase nor onConfirm is reached.
completeCalibration ==
    /\ calibrateOutcome' = "threw"
    /\ UNCHANGED << panelPhase, calibrationStore >>

\* One animation frame of scan loop id (lines 90-111).
scanTick(id, pose) ==
    /\ id \in DOMAIN scanLoops
    /\ IF panelPhase # "scan"
       THEN /\ scanLoops' = withoutLoop(id)
            /\ UNCHANGED << panelPhase, tPoseProgress, scanFrameId, calibrateOutcome,
                            calibrationStore >>
       ELSE IF checkTPose(pose)
       THEN \E elapsed \in { IF scanLoops[id] = -1 THEN 0 ELSE scanLoops[id] + ScanTickMs } :
               /\ tPoseProgress' = Min((100 * elapsed) \div REQUIRED_HOLD_MS, 100)
               /\ IF elapsed >= REQUIRED_HOLD_MS
                  THEN /\ completeCalibration
                       /\ scanLoops' = withoutLoop(id)
                       /\ UNCHANGED scanFrameId
                  ELSE /\ scanLoops' = withLoop(id, elapsed)
                       /\ scanFrameId' = id
                       /\ UNCHANGED << panelPhase, calibrateOutcome, calibrationStore >>
       ELSE /\ tPoseProgress' = Max(tPoseProgress - 10, 0)
            /\ scanLoops' = withLoop(id, -1)
            /\ scanFrameId' = id
            /\ UNCHANGED << panelPhase, calibrateOutcome, calibrationStore >>
    /\ UNCHANGED << countdownValue, timers, isCalibrated >>

\* handleManualCalibration (routes/upload/+page.svelte:118-139): a result
\* without keypoints is turned away with an alert; otherwise the height is
\* stored and calibration.calibrateFromPose is called, which throws as above.
handleManualCalibration(pose, heightInches) ==
    /\ IF pose.count = 0
       THEN calibrateOutcome' = "rejected" /\ UNCHANGED calibrationStore
       ELSE calibrateOutcome' = "threw" /\ setHeight(heightInches)
    /\ UNCHANGED << panelPhase, countdownValue, timers, tPoseProgress, scanLoops, scanFrameId,
                    isCalibrated >>

filterVars == << filters, filterIn, filterOut, clock >>

storeVars == << calibrationStore, panelVars, filterVars >>

\* ------------------------------------------------------------------------
\* Feature builder (features.ts).  Coordinates are hundredths of the image,
\* angles whole degrees, times milliseconds, scores hundredths; the velocity
\* terms of the vector are thousandths, velocityMps hundredths of m/s.
\* ------------------------------------------------------------------------
FrameMs == 33

\* A frame as the pose service delivers it: the keypoints of a pose, how
\* many of the 33 landmarks it carries and the visibility of each wrist.
MkFrame(pose, count, scoreL, scoreR) ==
    [ pose |-> pose, count |-> count, scoreL |-> scoreL, scoreR |-> scoreR ]

FullFrame(pose) == MkFrame(pose, 33, 90, 90)

\* Keypoint i of a frame: left joints at x = 45, right joints at x = 55, the
\* elbow halfway between shoulder and wrist and a little outside them.
Keypoint(frame, i) ==
    LET p == frame.pose
        left == i % 2 = 1
        y == CASE i \in { 11, 12 } -> IF left THEN p.y11 ELSE p.y12
               [] i \in { 13, 14 } -> IF left THEN (p.y11 + p.y15) \div 2
                                               ELSE (p.y12 + p.y16) \div 2
               [] i \in { 15, 16 } -> IF left THEN p.y15 ELSE p.y16
               [] i \in { 23, 24 } -> IF left THEN p.y23 ELSE p.y24
               [] i \in { 25, 26 } -> IF left THEN p.y25 ELSE p.y26
               [] OTHER -> IF left THEN p.y27 ELSE p.y28
        x == IF i \in { 13, 14 } THEN (IF left THEN 41 ELSE 59)
             ELSE (IF left THEN 45 ELSE 55)
    IN  [ x |-> x, y |-> y, z |-> 0,
          score |-> IF i = 15 THEN frame.scoreL ELSE IF i = 16 THEN frame.scoreR ELSE 90 ]

getIndices(isRight) ==
    IF isRight
    THEN [ shoulder |-> 12, elbow |-> 14, wrist |-> 16, hip |-> 24, knee |-> 26, ankle |-> 28 ]
    ELSE [ shoulder |-> 11, elbow |-> 13, wrist |-> 15, hip |-> 23, knee |-> 25, ankle |-> 27 ]

\* Division rounding toward zero.
Quot(a, b) == IF a >= 0 THEN a \div b ELSE -((-a) \div b)

Isqrt(n) == CHOOSE r \in 0..200 : r * r <= n /\ n < (r + 1) * (r + 1)

\* Math.acos in degrees of a cosine in thousandths, interpolated between
\* 0, 30, 45, 60 and 90 degrees.
acosDeg(c) ==
    LET pos(k) == IF k >= 866 THEN ((1000 - k) * 30) \div 134
                  ELSE IF k >= 707 THEN 30 + ((866 - k) * 15) \div 159
                  ELSE IF k >= 500 THEN 45 + ((707 - k) * 15) \div 207
                  ELSE 60 + ((500 - k) * 30) \div 500
    IN  IF c >= 0 THEN pos(c) ELSE 180 - pos(-c)

angle3pt(a, b, c) ==
    LET bax == a.x - b.x
        bay == a.y - b.y
        baz == a.z - b.z
        bcx == c.x - b.x
        bcy == c.y - b.y
        bcz == c.z - b.z
        dot == bax * bcx + bay * bcy + baz * bcz
        magBA == Isqrt(bax * bax + bay * bay + baz * baz)
        magBC == Isqrt(bcx * bcx + bcy * bcy + bcz * bcz)
        cosine == IF magBA * magBC = 0 THEN 0
                  ELSE Max(-1000, -Max(-1000, -Quot(dot * 1000, magBA * magBC)))
    IN  acosDeg(cosine)

\* 1. GUARD (lines 27-38): fewer than 33 keypoints, or a core joint of the
\* chosen side under 0.3.
extractNull(frame, side) ==
    LET idx == getIndices(side # "LEFT")
    IN  \/ frame.count < 33
        \/ \E j \in { idx.shoulder, idx.elbow, idx.wrist } : Keypoint(frame, j).score < 30

\* 3, 4. The angles and the wrist height of the chosen side (lines 40-58).
featureState(frame, side) ==
    LET idx == getIndices(side # "LEFT")
        sh == Keypoint(frame, idx.shoulder)
        el == Keypoint(frame, idx.elbow)
        wr == Keypoint(frame, idx.wrist)
        hip == Keypoint(frame, idx.hip)
        knee == Keypoint(frame, idx.knee)
        ankle == Keypoint(frame, idx.ankle)
    IN  [ elbowAng |-> angle3pt(sh, el, wr), shoulderAng |-> angle3pt(hip, sh, el),
          hipAng |-> angle3pt(sh, hip, knee), kneeAng |-> angle3pt(hip, knee, ankle),
          wristY |-> wr.y ]

\* 5. COMPUTE VELOCITIES (lines 68-97): zero unless a frame is cached and
\* 0 < dt < 1 s.
velocities(last, cur, dtMs, pxPerMeter) ==
    IF last # << >> /\ dtMs > 0 /\ dtMs < 1000
    THEN [ vElbow |-> Quot((cur.elbowAng - last[1].elbowAng) * 2000, dtMs),
           vShoulder |-> Quot((cur.shoulderAng - last[1].shoulderAng) * 2000, dtMs),
           vHip |-> Quot((cur.hipAng - last[1].hipAng) * 2000, dtMs),
           vKnee |-> Quot((cur.kneeAng - last[1].kneeAng) * 2000, dtMs),
           vWristY |-> Quot((cur.wristY - last[1].wristY) * 100000, dtMs),
           velocityMps |-> IF pxPerMeter > 0
                           THEN -Quot((cur.wristY - last[1].wristY) * 1000, pxPerMeter * dtMs)
                           ELSE -Quot((cur.wristY - last[1].wristY) * 2180, dtMs) ]
    ELSE [ vElbow |-> 0, vShoulder |-> 0, vHip |-> 0, vKnee |-> 0, vWristY |-> 0,
           velocityMps |-> 0 ]

featureVars == << lastState, lastTime, featureOut, extracted >>

InitFeatures ==
    /\ lastState = << >>
    /\ lastTime = 0
    /\ featureOut = << >>
    /\ extracted = << >>

\* extract(pose) on a frame that passes the guards (lines 40-124); v is the
\* record of velocity terms it computes.
extract(frame, side, timestamp, v) ==
    /\ ~extractNull(frame, side)
    /\ v = velocities(lastState, featureState(frame, side), timestamp - lastTime,
                      calibrationStore.pxPerMeter)
    /\ lastState' = << featureState(frame, side) >>
    /\ lastTime' = timestamp
    /\ featureOut' = << [ v |-> v, first |-> lastState = << >>,
                          same |-> extracted = << frame.pose >> ] >>
    /\ extracted' = << frame.pose >>

\* process(pose) on a frame for which featureBuilder.extract returned null
\* (analysis.ts:48-50, 100): the block under `if (result)` is skipped.
processInvalid ==
    /\ processOutcome' = "returned"
    /\ UNCHANGED << sessionVars, decoderState, currentPhase, bufIdx, featureVars >>

\* What process() handed back to its caller, if it returned.
ObserveReported ==
    reportedPhase' = IF processOutcome' = "returned" THEN currentPhase' ELSE reportedPhase

\* ------------------------------------------------------------------------
\* Video ingest (videoIngest.ts): the animation-frame loop and processFrame.
\* ------------------------------------------------------------------------
MaxTicks == 5

ingestVars ==
    << isActive, isProcessingFrame, droppedFrames, frameCount, overlayPhase, frameStage,
       tickNo, arrived, excused, lastStarted, reportedPhase, rafPending >>

InitIngest ==
    /\ isActive = FALSE
    /\ isProcessingFrame = FALSE
    /\ droppedFrames = 0
    /\ frameCount = 0
    /\ overlayPhase = "STANDING"
    /\ frameStage = << >>
    /\ tickNo = 0
    /\ arrived = 0
    /\ excused = 0
    /\ lastStarted = 0
    /\ reportedPhase = "STANDING"
    /\ rafPending = 0

\* The frames whose processFrame has begun and not reached its finally block.
inFlight == DOMAIN frameStage

\* processFrame up to its first await (lines 257-263): the frame of this tick
\* is taken and the flag raised.
beginFrame ==
    /\ isProcessingFrame' = TRUE
    /\ frameStage' = [ f \in inFlight \cup { tickNo' } |->
                         IF f = tickNo' THEN "pose" ELSE frameStage[f] ]
    /\ lastStarted' = tickNo'

\* Mutant of loopBody: the tick does not look at isProcessingFrame.
loopBodyNoFlag(playing) ==
    /\ tickNo' = tickNo + 1
    /\ arrived' = IF playing THEN arrived + 1 ELSE arrived
    /\ UNCHANGED droppedFrames
    /\ IF playing THEN beginFrame
       ELSE UNCHANGED << isProcessingFrame, frameStage, lastStarted >>

\* loop() once isActive has been tested (lines 245-254).
loopBody(playing) ==
    /\ tickNo' = tickNo + 1
    /\ arrived' = IF playing THEN arrived + 1 ELSE arrived
    /\ IF isProcessingFrame
       THEN /\ droppedFrames' = droppedFrames + 1
            /\ UNCHANGED << isProcessingFrame, frameStage, lastStarted >>
       ELSE /\ UNCHANGED droppedFrames
            /\ IF playing THEN beginFrame
               ELSE UNCHANGED << isProcessingFrame, frameStage, lastStarted >>

\* startFrameLoop (lines 215-224); the video element is set by initialize.
startFrameLoop(playing) ==
    /\ ~isActive
    /\ tickNo < MaxTicks
    /\ isActive' = TRUE
    /\ loopBody(playing)
    /\ rafPending' = rafPending + 1
    /\ UNCHANGED << frameCount, overlayPhase, excused, reportedPhase >>
    /\ UNCHANGED << featureVars, storeVars >>

\* Mutant of stopFrameLoop: the animation frame requested last is not cancelled.
stopFrameLoopNoCancel ==
    /\ isActive
    /\ isActive' = FALSE
    /\ UNCHANGED << isProcessingFrame, droppedFrames, frameCount, overlayPhase, frameStage,
                    tickNo, arrived, excused, lastStarted, reportedPhase, rafPending >>
    /\ UNCHANGED << featureVars, storeVars >>

\* stopFrameLoop (lines 226-241): the animation frame requested last is
\* cancelled (the camera stream is left out).
stopFrameLoop ==
    /\ isActive
    /\ isActive' = FALSE
    /\ rafPending' = IF rafPending > 0 THEN rafPending - 1 ELSE 0
    /\ UNCHANGED << isProcessingFrame, droppedFrames, frameCount, overlayPhase, frameStage,
                    tickNo, arrived, excused, lastStarted, reportedPhase >>
    /\ UNCHANGED << featureVars, storeVars >>

\* An animation frame requested by an earlier loop() is delivered (lines
\* 243-255): a loop that is no longer active returns at once, an active one
\* requests the next frame before anything else.
loop(playing) ==
    /\ rafPending > 0
    /\ tickNo < MaxTicks
    /\ IF isActive
       THEN loopBody(playing) /\ UNCHANGED rafPending
       ELSE /\ rafPending' = rafPending - 1
            /\ UNCHANGED << isProcessingFrame, droppedFrames, frameStage, tickNo, arrived,
                            lastStarted >>
    /\ UNCHANGED << isActive, frameCount, overlayPhase, excused, reportedPhase >>
    /\ UNCHANGED << featureVars, storeVars >>

\* The finally block of processFrame (lines 285-287) for frame f.
finishFrame(f) ==
    /\ isProcessingFrame' = FALSE
    /\ frameStage' = [ g \in inFlight \ { f } |-> frameStage[g] ]

\* await poseService.process resolves (line 263).
poseResolved(f) ==
    /\ frameStage[f] = "pose"
    /\ frameStage' = [ frameStage EXCEPT ![f] = "analysis" ]
    /\ UNCHANGED << isActive, isProcessingFrame, droppedFrames, frameCount, overlayPhase,
                    tickNo, arrived, excused, lastStarted, reportedPhase, rafPending >>
    /\ UNCHANGED << featureVars, storeVars >>

\* await poseService.process rejects: catch and finally (lines 283-287).
poseRejected(f) ==
    /\ frameStage[f] = "pose"
    /\ finishFrame(f)
    /\ excused' = excused + 1
    /\ UNCHANGED << isActive, droppedFrames, frameCount, overlayPhase, tickNo, arrived,
                    lastStarted, reportedPhase, rafPending >>
    /\ UNCHANGED << featureVars, storeVars >>

\* The rest of processFrame once analysisService.process has settled
\* (lines 266-287): the HUD and the telemetry follow a returned phase, a
\* rejection goes to the catch block.
frameDone(f) ==
    /\ finishFrame(f)
    /\ ObserveReported
    /\ IF processOutcome' = "returned"
       THEN overlayPhase' = currentPhase' /\ frameCount' = frameCount + 1
       ELSE UNCHANGED << overlayPhase, frameCount >>
    /\ UNCHANGED << isActive, droppedFrames, tickNo, arrived, lastStarted, rafPending >>

\* analysisService.process(result) on a frame with valid features; the
\* frame was taken at tick f and carries the side the session holds.
frameAnalysed(f, frame) ==
    /\ frameStage[f] = "analysis"
    /\ \E v \in { velocities(lastState, featureState(frame, state.activeSide),
                              f * FrameMs - lastTime, calibrationStore.pxPerMeter) } :
          /\ extract(frame, state.activeSide, f * FrameMs, v)
          /\ processWith(frame.pose, v.velocityMps, FALSE)
    /\ frameDone(f)
    /\ UNCHANGED << excused, storeVars >>

\* analysisService.process(result) on a frame without valid features.
frameSkipped(f, frame) ==
    /\ frameStage[f] = "analysis"
    /\ extractNull(frame, state.activeSide)
    /\ processInvalid
    /\ frameDone(f)
    /\ excused' = excused + 1
    /\ UNCHANGED storeVars

\* ------------------------------------------------------------------------
\* OneEuroFilter (oneEuro.ts) and the filter bank of the pose service
\* (pose.ts).  Values, smoothing factors and frequencies are thousandths,
\* times milliseconds; a null field is << >>, a number v is << v >>.
\* ------------------------------------------------------------------------
minCutoff == 500
beta == 50
dCutoff == 1000
TWO_PI == 6283

\* Filters of the bank that are modelled (the service has LANDMARK_COUNT * 3).
BankSize == 2
\* filter() calls followed, over all filters.
MaxSamples == 3

\* The fields of a new filter (lines 6-8) and of one after reset() (lines 20-24).
freshFilter == [ xPrev |-> << >>, dxPrev |-> << >>, tPrev |-> << >> ]

\* smoothingFactor (lines 72-75).
smoothingFactor(te, cutoff) ==
    (1000 * ((TWO_PI * cutoff * te) \div 1000000)) \div (((TWO_PI * cutoff * te) \div 1000000) + 1000)

\* exponentialSmoothing (lines 77-79).
exponentialSmoothing(a, x, xPrev) == Quot(a * x + (1000 - a) * xPrev, 1000)

\* Mutant of afterSeekTest: a timestamp before the last one is not taken as a seek.
afterSeekTestNever(f, tMs) == f

\* The loop/seek test of filter() (lines 36-38).
afterSeekTest(f, tMs) ==
    IF f.tPrev # << >> /\ tMs < f.tPrev[1] THEN freshFilter ELSE f

\* Mutant of firstSample: the first value is taken as a change from zero.
firstSampleFromZero(tMs, x) ==
    [ state |-> [ xPrev |-> << x >>, dxPrev |-> << x >>, tPrev |-> << tMs >> ], out |-> x ]

\* The first sample (lines 40-45).
firstSample(tMs, x) ==
    [ state |-> [ xPrev |-> << x >>, dxPrev |-> << 0 >>, tPrev |-> << tMs >> ], out |-> x ]

\* Lines 53-69 for an elapsed time te > 0.
smoothed(f, tMs, x, te) ==
    LET dxHat == exponentialSmoothing(smoothingFactor(te, dCutoff),
                                      Quot((x - f.xPrev[1]) * 1000, te), f.dxPrev[1])
        xHat == exponentialSmoothing(smoothingFactor(te, minCutoff + (beta * Abs(dxHat)) \div 1000),
                                     x, f.xPrev[1])
    IN  [ state |-> [ xPrev |-> << xHat >>, dxPrev |-> << dxHat >>, tPrev |-> << tMs >> ],
          out |-> xHat ]

\* Mutant of laterSample: a sample without elapsed time is filtered like any other.
laterSampleUnguarded(f, tMs, x) ==
    smoothed(f, tMs, x, Max(tMs - f.tPrev[1], 1))

\* Lines 47-69: a sample after the first.
laterSample(f, tMs, x) ==
    IF tMs - f.tPrev[1] <= 0
    THEN [ state |-> f, out |-> f.xPrev[1] ]
    ELSE smoothed(f, tMs, x, tMs - f.tPrev[1])

\* filter(tMs, x) (lines 31-70) on the fields f: the fields it leaves and
\* the value it returns.
filter(f, tMs, x) ==
    IF afterSeekTest(f, tMs).tPrev = << >>
    THEN firstSample(tMs, x)
    ELSE laterSample(afterSeekTest(f, tMs), tMs, x)

InitFilters ==
    /\ filters = [ i \in 1..BankSize |-> freshFilter ]
    /\ filterIn = [ i \in 1..BankSize |-> [ tMs |-> 0, x |-> 0, pre |-> freshFilter, n |-> 0 ] ]
    /\ filterOut = [ i \in 1..BankSize |-> 0 ]
    /\ clock = 0

\* The filter() calls made so far on filters 1..k.
RECURSIVE samplesTaken(_)
samplesTaken(k) == IF k = 0 THEN 0 ELSE filterIn[k].n + samplesTaken(k - 1)

\* What one filter() call on each filter of the set fed does to the bank.
callFilters(fed, tMs, xs) ==
    /\ samplesTaken(BankSize) + Cardinality(fed) <= MaxSamples
    /\ filters' = [ i \in 1..BankSize |->
                      IF i \in fed THEN filter(filters[i], tMs, xs[i]).state ELSE filters[i] ]
    /\ filterOut' = [ i \in 1..BankSize |->
                      IF i \in fed THEN filter(filters[i], tMs, xs[i]).out ELSE filterOut[i] ]
    /\ filterIn' = [ i \in 1..BankSize |->
                      IF i \in fed
                      THEN [ tMs |-> tMs, x |-> xs[i], pre |-> filters[i], n |-> filterIn[i].n + 1 ]
                      ELSE filterIn[i] ]

\* filter(tMs, x) called on one filter with a timestamp of the caller's choice.
filterSample(i, tMs, x) ==
    /\ callFilters({ i }, tMs, [ j \in 1..BankSize |-> x ])
    /\ UNCHANGED clock

\* normalizeResults (pose.ts:95-127) on a result with landmarks: every filter
\* of the bank is fed at the same performance.now(), which never runs backward.
normalizeResults(now, xs) ==
    /\ now >= clock
    /\ clock' = now
    /\ callFilters(1..BankSize, now, xs)

\* normalizeResults on a result without poseLandmarks: no filter is called.
normalizeEmpty(now) ==
    /\ now >= clock
    /\ clock' = now
    /\ UNCHANGED << filters, filterIn, filterOut >>

\* resetFilters (pose.ts:74-76).
resetFilters ==
    /\ filters' = [ i \in 1..BankSize |-> freshFilter ]
    /\ UNCHANGED << filterIn, filterOut, clock >>

\* ------------------------------------------------------------------------
\* Observers of the phase sequence fed to a locked session.  They record what
\* has been fed; the engine never reads them.
\* ------------------------------------------------------------------------
\* The sequence of the rep-counting scenario.
Script ==
    << "STANDING", "HANDONBELL", "HIKE", "PULL", "FLOAT", "LOCKOUT", "DROP", "PARK" >>

\* The phase that continues a chained set after the phase at position p of
\* HANDONBELL, HIKE, PULL, FLOAT, LOCKOUT, DROP, CATCH (CATCH -> PULL chains).
ChainCycle == << "HANDONBELL", "HIKE", "PULL", "FLOAT", "LOCKOUT", "DROP", "CATCH" >>
ChainNext(p) == IF p = 7 THEN 3 ELSE p + 1

\* Whether this update ran in a session that was locked before it and is still
\* locked after it.
StaysLocked == state.isSessionActive /\ state'.isSessionActive

ObserveScript(phase) ==
    IF ~StaysLocked THEN scriptPos' = 0 /\ scriptBase' = 0
    ELSE IF scriptPos > 0 /\ scriptPos < Len(Script) /\ phase = Script[scriptPos + 1]
    THEN scriptPos' = scriptPos + 1 /\ scriptBase' = scriptBase
    ELSE IF phase = Script[1]
    THEN scriptPos' = 1 /\ scriptBase' = state.repCount
    ELSE scriptPos' = 0 /\ scriptBase' = 0

\* liftStage: 0 no lift under way, 1 HIKE entered, 2 LOCKOUT entered after it.
ObserveLift(phase) ==
    liftStage' =
        IF ~StaysLocked THEN 0
        ELSE IF state'.repCount # state.repCount THEN 0
        ELSE IF phase = "HIKE" /\ state.lastPhase # "HIKE" THEN 1
        ELSE IF phase = "LOCKOUT" /\ liftStage >= 1 THEN 2
        ELSE liftStage

ObserveChain(phase) ==
    chainPos' =
        IF ~StaysLocked THEN 0
        ELSE IF chainPos > 0 /\ phase = ChainCycle[ChainNext(chainPos)]
        THEN ChainNext(chainPos)
        ELSE IF phase = ChainCycle[1] THEN 1
        ELSE 0

\* ------------------------------------------------------------------------
\* Observers of the poses fed to a locked session and of how it ended.
\* ------------------------------------------------------------------------
\* The stood-up condition as update() evaluates it on this pose.
stoodUp(pose) == checkStandingReset(runAutoCalibration(Engine, pose), pose)

OtherSide(side) == IF side = "LEFT" THEN "RIGHT" ELSE "LEFT"

ObserveStood(pose) ==
    stoodRun' = IF ~state.isSessionActive THEN 0
                ELSE IF ~stoodUp(pose) THEN 0
                ELSE IF stoodRun > RESET_DURATION_FRAMES THEN stoodRun
                ELSE stoodRun + 1

ObserveOtherSide(pose) ==
    otherSideSeen' = IF ~StaysLocked THEN FALSE
                     ELSE otherSideSeen \/ checkSetupGeometry(pose, OtherSide(state.activeSide))

ObserveUnlock ==
    lastUnlock' = IF state.isSessionActive /\ ~state'.isSessionActive
                  THEN IF state.repCount = 0 THEN "falseStart" ELSE "sessionEnd"
                  ELSE IF state'.isSessionActive THEN "none"
                  ELSE lastUnlock

\* The hinged-and-still condition as update() evaluates it in a session with a rep.
ObserveStill(pose, velocityMps) ==
    stillRun' = IF /\ state.isSessionActive
                   /\ state.repCount > 0
                   /\ checkSetupGeometry(pose, state.activeSide)
                   /\ Abs(velocityMps) < PARK_VELOCITY_MAX
                THEN Min(stillRun + 1, MaxParkTimer)
                ELSE 0

\* The updates of a locked session in which the phase changed to HIKE.
ObserveHike(phase) ==
    /\ hikeEntries' = IF ~state'.isSessionActive \/ ~state.isSessionActive THEN 0
                      ELSE IF phase = "HIKE" /\ state.lastPhase # "HIKE"
                      THEN Min(hikeEntries + 1, MaxReps)
                      ELSE hikeEntries
    /\ hikedSinceRep' = IF ~state'.isSessionActive \/ ~state.isSessionActive THEN FALSE
                        ELSE IF state'.repCount # state.repCount THEN FALSE
                        ELSE IF phase = "HIKE" /\ state.lastPhase # "HIKE" THEN TRUE
                        ELSE hikedSinceRep

parkObservers == << stillRun, hikeEntries, hikedSinceRep >>

unlockObservers == << stoodRun, otherSideSeen, lastUnlock, lastPose, parkObservers >>

observerVars == << scriptPos, scriptBase, liftStage, chainPos, unlockObservers >>

InitObservers ==
    /\ scriptPos = 0
    /\ scriptBase = 0
    /\ liftStage = 0
    /\ chainPos = 0
    /\ stoodRun = 0
    /\ otherSideSeen = FALSE
    /\ lastUnlock = "none"
    /\ lastPose = PoseStand
    /\ stillRun = 0
    /\ hikeEntries = 0
    /\ hikedSinceRep = FALSE

\* The upload page's own calls of the pose service and the detector behind it.
pageVars == << pageCalls, sent, onResults >>

InitPage ==
    /\ pageCalls = << >>
    /\ sent = 0
    /\ onResults = 0

serviceVars == << ingestVars, pageVars, bufferVars, featureVars, storeVars >>

vars == << sessionVars, observerVars, decoderVars, analysisVars, serviceVars >>

Init == InitSession /\ InitObservers /\ InitDecoder /\ InitAnalysis /\ InitIngest
        /\ InitFeatures /\ InitCalibrationStore /\ InitPanel /\ InitFilters /\ InitPage
        /\ InitBuffer

\* ------------------------------------------------------------------------
\* SpecReps: the rep counter under every phase sequence, the subject hinging
\* over the bell, standing upright or holding the bell overhead, the bell at
\* rest between frames.
\* ------------------------------------------------------------------------
RepPoses == { PoseStand, PoseHingeL, PoseOverhead }
RepVelocities == { 0 }

NextReps ==
    \E phase \in Phase, pose \in RepPoses, v \in RepVelocities :
        /\ WarmUp(phase, pose, v)
        /\ update(phase, pose, v)
        /\ ObserveScript(phase)
        /\ ObserveLift(phase)
        /\ ObserveChain(phase)
        /\ UNCHANGED << unlockObservers, decoderVars, analysisVars, serviceVars >>

SpecReps == Init /\ [][NextReps]_vars

\* ------------------------------------------------------------------------
\* SpecSession: the whole update() with still and spiking velocities.
\* ------------------------------------------------------------------------
SessionPoses == { PoseStand, PoseHingeL, PoseHingeR }
SessionVelocities == { 0, 400 }

NextSession ==
    \E phase \in Phase, pose \in SessionPoses, v \in SessionVelocities :
        /\ WarmUp(phase, pose, v)
        /\ update(phase, pose, v)
        /\ UNCHANGED << observerVars, decoderVars, analysisVars, serviceVars >>

SpecSession == Init /\ [][NextSession]_vars

\* ------------------------------------------------------------------------
\* SpecSideLock: slow lifts on either side, with the subject upright or
\* hinged over the bell on the left or on the right.
\* ------------------------------------------------------------------------
SideLockPhases == { "STANDING", "HIKE", "LOCKOUT", "DROP" }
SideLockPoses == { PoseStand, PoseHingeL, PoseHingeR }

NextSideLock ==
    \E phase \in SideLockPhases, pose \in SideLockPoses :
        /\ WarmUp(phase, pose, 0)
        /\ update(phase, pose, 0)
        /\ ObserveStood(pose)
        /\ ObserveOtherSide(pose)
        /\ ObserveUnlock
        /\ UNCHANGED << lastPose, parkObservers >>
        /\ UNCHANGED << scriptPos, scriptBase, liftStage, chainPos, decoderVars, analysisVars, serviceVars >>

SpecSideLock == Init /\ [][NextSideLock]_vars

\* ------------------------------------------------------------------------
\* SpecUnlock: how a session ends, over the phases of a single lift, with
\* the subject upright, hinged over the bell or squatting upright over it.
\* ------------------------------------------------------------------------
UnlockPhases == { "STANDING", "HIKE", "LOCKOUT", "DROP" }
UnlockPoses == { PoseStand, PoseHingeL, PoseSquatL }
UnlockVelocities == { 0, 400 }

NextUnlock ==
    \E phase \in UnlockPhases, pose \in UnlockPoses, v \in UnlockVelocities :
        /\ WarmUp(phase, pose, v)
        /\ update(phase, pose, v)
        /\ ObserveStood(pose)
        /\ ObserveUnlock
        /\ UNCHANGED << lastPose, parkObservers >>
        /\ UNCHANGED << scriptPos, scriptBase, liftStage, chainPos, otherSideSeen,
                        decoderVars, analysisVars, serviceVars >>

SpecUnlock == Init /\ [][NextUnlock]_vars

\* ------------------------------------------------------------------------
\* SpecVelocity: lifts with slow, fast and downward bell velocities, every
\* phase of the pull included.
\* ------------------------------------------------------------------------
VelocityPhases == { "STANDING", "HIKE", "PULL", "FLOAT", "LOCKOUT", "DROP" }
VelocityPoses == { PoseStand, PoseHingeL }
VelocityValues == { -100, 100, 400 }

NextVelocity ==
    \E phase \in VelocityPhases, pose \in VelocityPoses, v \in VelocityValues \cup { 0 } :
        /\ WarmUp(phase, pose, v)
        /\ ~calibration.isComplete \/ v \in VelocityValues
        /\ update(phase, pose, v)
        /\ UNCHANGED << observerVars, decoderVars, analysisVars, serviceVars >>

SpecVelocity == Init /\ [][NextVelocity]_vars

\* ------------------------------------------------------------------------
\* SpecCalibration: any pose from the first frame on, so that a side can lock
\* and the subject can stand up while the warm-up is still running.
\* ------------------------------------------------------------------------
CalibrationPhases == { "STANDING", "HIKE" }
CalibrationPoses == { PoseStand, PoseTall, PoseHingeL }

NextCalibration ==
    \E phase \in CalibrationPhases, pose \in CalibrationPoses :
        /\ update(phase, pose, 0)
        /\ UNCHANGED << observerVars, decoderVars, analysisVars, serviceVars >>

SpecCalibration == Init /\ [][NextCalibration]_vars

\* ------------------------------------------------------------------------
\* SpecDecoder: a stream of decodeLast calls, with resets between them.
\* ------------------------------------------------------------------------
NextDecoder ==
    \/ /\ pc = "idle"
       /\ \E m \in Margins, steps \in 1..MaxRows, missing \in 0..1 :
            \E logits \in RowSeqs(m, steps - missing) : Invoke(logits, steps)
       /\ UNCHANGED << sessionVars, observerVars, analysisVars, serviceVars >>
    \/ decodeLast /\ UNCHANGED << sessionVars, observerVars, analysisVars, serviceVars >>
    \/ Return /\ UNCHANGED << sessionVars, observerVars, analysisVars, serviceVars >>
    \/ decoderReset /\ UNCHANGED << sessionVars, observerVars, analysisVars, serviceVars >>

SpecDecoder == Init /\ [][NextDecoder]_vars

\* ------------------------------------------------------------------------
\* SpecAnalysis: frames through analysisService.process, the bell at rest.
\* ------------------------------------------------------------------------
AnalysisPoses == { PoseStand, PoseHingeL }

NextAnalysis ==
    \/ /\ \E pose \in AnalysisPoses : process(pose, 0)
       /\ UNCHANGED << observerVars, pc, callLogits, callSteps, callSeed, returned, prevReturned,
                     serviceVars >>
    \/ /\ analysisReset
       /\ UNCHANGED << observerVars, pc, callLogits, callSteps, callSeed, returned, prevReturned,
                     serviceVars >>

SpecAnalysis == Init /\ [][NextAnalysis]_vars

\* ------------------------------------------------------------------------
\* SpecIngest: the frame loop started, ticking and stopped while frames are
\* being processed, from a cold start of every service.
\* ------------------------------------------------------------------------
IngestFrames ==
    { FullFrame(PoseStand), FullFrame(PoseHingeL),
      MkFrame(PoseStand, 0, 90, 90), MkFrame(PoseHingeL, 33, 20, 20) }

NextIngest ==
    \/ /\ \E playing \in BOOLEAN : startFrameLoop(playing)
       /\ UNCHANGED << bufferVars, sessionVars, observerVars, decoderVars, analysisVars, pageVars >>
    \/ /\ stopFrameLoop
       /\ UNCHANGED << bufferVars, sessionVars, observerVars, decoderVars, analysisVars, pageVars >>
    \/ /\ \E playing \in BOOLEAN : loop(playing)
       /\ UNCHANGED << bufferVars, sessionVars, observerVars, decoderVars, analysisVars, pageVars >>
    \/ /\ \E f \in inFlight : poseResolved(f)
       /\ UNCHANGED << bufferVars, sessionVars, observerVars, decoderVars, analysisVars, pageVars >>
    \/ /\ \E f \in inFlight : poseRejected(f)
       /\ UNCHANGED << bufferVars, sessionVars, observerVars, decoderVars, analysisVars, pageVars >>
    \/ /\ \E f \in inFlight, frame \in IngestFrames : frameAnalysed(f, frame)
       /\ UNCHANGED << bufferVars, observerVars, pc, callLogits, callSteps, callSeed, returned, prevReturned,
                       pageVars >>
    \/ /\ \E f \in inFlight, frame \in IngestFrames : frameSkipped(f, frame)
       /\ UNCHANGED << bufferVars, observerVars, pc, callLogits, callSteps, callSeed, returned, prevReturned,
                       pageVars >>

SpecIngest == Init /\ [][NextIngest]_vars

\* ========================================================================
\* Claims about the rep counter
\* ========================================================================

\* C1: fed STANDING, HANDONBELL, HIKE, PULL, FLOAT, LOCKOUT, DROP, PARK in a
\* session that is locked and stays locked, repCount is unchanged up to and
\* including LOCKOUT, is one higher right after the update that sees
\* LOCKOUT -> DROP, and is still exactly one higher after DROP -> PARK.
C1_RepOnLockoutToDrop ==
    /\ scriptPos \in 1..6 => state.repCount = scriptBase
    /\ scriptPos \in 7..8 => state.repCount = scriptBase + 1

\* The whole script has been fed to a locked session.
C1_ScriptFed ==
    /\ state.isSessionActive
    /\ scriptPos = Len(Script)
    /\ state.repCount = scriptBase + 1

\* C2: a rep is credited only for a complete ordered cycle: whenever an update
\* raises repCount, HIKE was entered and LOCKOUT was reached after it
\* (liftStage = 2); a lift aborted before LOCKOUT credits nothing.
C2_RepOnlyAfterLockout ==
    [][state'.repCount > state.repCount => liftStage = 2]_vars

\* C3: in a chained set HANDONBELL, HIKE, (PULL, FLOAT, LOCKOUT, DROP, CATCH)*
\* fed to a locked session, every LOCKOUT -> DROP transition raises repCount
\* by one.
C3_EveryChainedRepCounts ==
    [][(chainPos = 5 /\ chainPos' = 6) => state'.repCount = state.repCount + 1]_vars

\* C4: while the session stays locked, an update leaves repCount unchanged or
\* raises it by exactly one.
C4_RepCountMonotone ==
    [][StaysLocked => state'.repCount \in { state.repCount, state.repCount + 1 }]_vars

\* A locked session that has counted reps.
C4_RepsCounted ==
    state.isSessionActive /\ state.repCount >= 2

\* ========================================================================
\* Claims about the Viterbi decoder
\* ========================================================================

\* A decodeLast call has finished and its arguments are still at hand.
CallDone == pc = "returned"

\* The call passed as many rows as it asked the decoder to walk.
RowsAsExpected == Len(callLogits) = callSteps

\* The grammar has the edge p -> q (every phase has its self-loop).
Legal(p, q) == q \in TRANSITION_GRAMMAR[p]

\* q's score exceeds every other score of the row.
Favours(row, q) == \A s \in 1..C : s # PHASE_MAP(q) => row[PHASE_MAP(q)] > row[s]

\* Largest difference between two scores of a row.
Spread(row) ==
    CHOOSE d \in { row[a] - row[b] : a, b \in 1..C } :
        \A a, b \in 1..C : row[a] - row[b] <= d

RECURSIVE SumSpread(_, _)
SumSpread(logits, n) == IF n = 0 THEN 0 ELSE SumSpread(logits, n - 1) + Spread(logits[n])

\* C5: a decodeLast call whose scores favour a phase q that has no grammar
\* edge from the persisted phase, by whatever margin, neither returns q nor
\* persists q.  Stated for the calls of one row, where the only way from the
\* persisted phase to q is the missing edge itself.
C5_NoIllegalJump ==
    \A q \in Phase :
        ( /\ CallDone /\ callSteps = 1 /\ Len(callLogits) = 1
          /\ ~Legal(callSeed, q)
          /\ Favours(callLogits[1], q) )
        => (returned # q /\ decoderState # q)

\* C6 as stated: whenever every supplied row has all its scores within the
\* self-transition bonus of one another, the call returns the persisted phase
\* and leaves it persisted, whatever the number of rows.
C6_NearUniformStays ==
    ( /\ CallDone /\ RowsAsExpected
      /\ \A t \in 1..Len(callLogits) : Spread(callLogits[t]) < SELF_TRANSITION_BONUS )
    => (returned = callSeed /\ decoderState = callSeed)

\* C6: when the spreads of the rows of a call add up to less than the
\* self-transition bonus (for one row: its scores differ by less than the
\* bonus), the call returns the persisted phase and leaves it persisted.
C6_SmallTotalSpreadStays ==
    ( /\ CallDone /\ RowsAsExpected
      /\ SumSpread(callLogits, Len(callLogits)) < SELF_TRANSITION_BONUS )
    => (returned = callSeed /\ decoderState = callSeed)

\* Two rows, one of them leaning by 1 towards a legal successor: the decoder stayed.
C6_AmbiguousRowHeld ==
    /\ CallDone
    /\ callSteps = 2
    /\ callSeed = "HANDONBELL"
    /\ callLogits = << RowFavouring("HIKE", 1), RowFavouring("NONE", 1) >>
    /\ returned = "HANDONBELL"
    /\ decoderState = "HANDONBELL"

\* C7: a call whose number of rows differs from its step count fails loudly:
\* it returns no phase and leaves the persisted state as it was.
C7_MismatchFailsLoudly ==
    (CallDone /\ ~RowsAsExpected) => (returned = "NONE" /\ decoderState = callSeed)

\* C8: every returned phase is the previously returned phase or one grammar
\* edge away from it.
C8_TrackLegal ==
    (CallDone /\ prevReturned # "NONE") => Legal(prevReturned, returned)

\* Row-0 scores seeded with the transition costs out of phase p.
C9_SeededFrom(p, logits) ==
    scoreArray([s \in 1..C |-> buildTransitionMatrix[PHASE_MAP(p)][s] + logits[1][s]])

\* C9: after a call the persisted state is the phase it returned, and a call
\* that follows another returns what the dynamic program yields when row 0 is
\* seeded with the transition costs out of the phase the previous call returned.
C9_StreamingContinuity ==
    CallDone =>
        /\ decoderState = returned
        /\ (prevReturned # "NONE" /\ Len(callLogits) >= 1) =>
              returned = PHASES[Eval(forward(C9_SeededFrom(prevReturned, callLogits),
                                             callLogits, 1, callSteps), selectWinner)]

\* A call continued from HIKE to PULL, which a decoder restarted at STANDING
\* could not reach with these scores.
C9_ContinuedFromPrevious ==
    /\ CallDone
    /\ prevReturned = "HIKE"
    /\ callSteps = 1
    /\ callLogits = << RowFavouring("PULL", 3) >>
    /\ returned = "PULL"
    /\ decoderState = "PULL"

\* Log-softmax of a row in whole units: score minus the row maximum minus the
\* logarithm of the sum of exp(score - maximum), the exponentials in
\* thousandths and the logarithm rounded down.
RowMax(row) == CHOOSE m \in { row[s] : s \in 1..C } : \A s \in 1..C : row[s] <= m

ExpMilli(d) ==
    CASE d = 0 -> 1000 [] d = 1 -> 368 [] d = 2 -> 135 [] d = 3 -> 50
      [] d = 4 -> 18 [] d = 5 -> 7 [] d = 6 -> 2 [] d = 7 -> 1 [] OTHER -> 0

RECURSIVE SumExpMilli(_, _, _)
SumExpMilli(row, top, n) ==
    IF n = 0 THEN 0 ELSE SumExpMilli(row, top, n - 1) + ExpMilli(top - row[n])

LogMilli(x) == IF x < 2719 THEN 0 ELSE IF x < 7390 THEN 1 ELSE 2

LogSoftmax(row) ==
    Eval(RowMax(row), LAMBDA top :
        Eval(LogMilli(SumExpMilli(row, top, C)), LAMBDA lse :
            scoreArray([s \in 1..C |-> row[s] - top - lse])))

\* The transition cost of the claim: the bonus on self-loops, 0 on the other
\* legal edges, the penalty on the rest.
C10_trans(p, s) ==
    IF p = s THEN SELF_TRANSITION_BONUS
    ELSE IF Legal(PHASES[p], PHASES[s]) THEN 0 ELSE ILLEGAL_PENALTY

\* score_t as an array, from score_{t-1} and the log-probabilities of row t.
C10_next(prev, emit) ==
    scoreArray([s \in 1..C |->
        emit[s] + (CHOOSE m \in { prev[p] + C10_trans(p, s) : p \in 1..C } :
                      \A p \in 1..C : prev[p] + C10_trans(p, s) <= m)])

RECURSIVE C10_score(_, _, _)
C10_score(seed, logits, t) ==
    IF t = 1
    THEN Eval(LogSoftmax(logits[1]), LAMBDA emit :
            scoreArray([s \in 1..C |-> C10_trans(PHASE_MAP(seed), s) + emit[s]]))
    ELSE Eval(C10_score(seed, logits, t - 1), LAMBDA prev :
            Eval(LogSoftmax(logits[t]), LAMBDA emit : C10_next(prev, emit)))

C11_DriftOverrideForces ==
    ( /\ processOutcome # "none"
      /\ state.isSessionActive /\ state.repCount = 0
      /\ state.lastPhase = "STANDING" )
    => ( /\ processOutcome = "returned"
         /\ decoderState = "HANDONBELL"
         /\ currentPhase = "HANDONBELL" )

C13_SideLockHeld ==
    [][state.isSessionActive =>
          \/ state'.isSessionActive /\ state'.activeSide = state.activeSide
          \/ ~state'.isSessionActive /\ state'.activeSide = "NONE"]_vars

\* A session locked on the left has seen the right hand at the right ankle.
C13_OtherSideIgnored ==
    state.isSessionActive /\ state.activeSide = "LEFT" /\ otherSideSeen

\* C14: after every update, an unlocked session has repCount = 0,
\* peakVelocity = 0, hasHiked = FALSE and hasHitLockout = FALSE.
C14_UnlockedIsClean ==
    ~state.isSessionActive =>
        /\ state.repCount = 0
        /\ state.peakVelocity = 0
        /\ ~hasHiked
        /\ ~hasHitLockout

\* C15: an update of a locked session with no rep counted unlocks it only
\* when the stood-up condition has held on more than RESET_DURATION_FRAMES
\* consecutive updates ending with this one; an update in which it does not
\* hold leaves the count at zero; and the update runs no park detection.
C15_FalseStartDebounced ==
    [][(state.isSessionActive /\ state.repCount = 0) =>
          /\ ~state'.isSessionActive => stoodRun' > RESET_DURATION_FRAMES
          /\ stoodRun' = 0 => standTimer' = 0
          /\ parkTimer' = 0 /\ ~isParked']_vars

\* A session has just been abandoned as a false start.
C15_FalseStartUnlocked ==
    /\ lastUnlock = "falseStart"
    /\ ~state.isSessionActive
    /\ stoodRun > RESET_DURATION_FRAMES

\* C16: an update of a locked session with a rep counted unlocks it only
\* when the stood-up condition has held on more than RESET_DURATION_FRAMES
\* consecutive updates ending with this one.
C16_SessionEndDebounced ==
    [][(state.isSessionActive /\ state.repCount > 0 /\ ~state'.isSessionActive) =>
          stoodRun' > RESET_DURATION_FRAMES]_vars

\* C17: an update of a parked session whose velocity exceeds the cancel
\* threshold does not end the session, and leaves isParked = FALSE and
\* parkTimer = 0.
C17_SpikeCancelsPark ==
    [][(state.isSessionActive /\ isParked
            /\ Abs(state'.currentVelocity) > PARK_CANCEL_VELOCITY) =>
          /\ state'.isSessionActive
          /\ ~isParked'
          /\ parkTimer' = 0]_vars

\* ========================================================================
\* Claims about the peak velocity
\* ========================================================================

\* C18: in every update peakVelocity is unchanged, or raised to the update's
\* velocity (locked session, phase PULL or FLOAT, velocity above the peak),
\* or zeroed (phase HIKE, or the update unlocks the session); and it is
\* never negative.
C18_PeakOnlyInGate ==
    [][/\ \/ state'.peakVelocity = state.peakVelocity
          \/ /\ state.isSessionActive
             /\ state'.lastPhase \in { "PULL", "FLOAT" }
             /\ state'.currentVelocity > state.peakVelocity
             /\ state'.peakVelocity = state'.currentVelocity
          \/ /\ state'.peakVelocity = 0
             /\ \/ state'.lastPhase = "HIKE"
                \/ state.isSessionActive /\ ~state'.isSessionActive
       /\ state'.peakVelocity >= 0]_vars

\* C19: an update that keeps the session locked, in phase PULL, FLOAT or
\* LOCKOUT and with a velocity above peakVelocity, raises peakVelocity to it.
C19_LockoutIsConcentric ==
    [][(/\ state.isSessionActive
        /\ state'.isSessionActive
        /\ state'.lastPhase \in { "PULL", "FLOAT", "LOCKOUT" }
        /\ state'.currentVelocity > state.peakVelocity) =>
          state'.peakVelocity = state'.currentVelocity]_vars

\* ========================================================================
\* Claims about the auto-calibration
\* ========================================================================

\* C20: in every update, of a locked session or not, maxTorsoLength does not
\* decrease; while the warm-up is incomplete the update counts one more
\* frame and completes it exactly when the count reaches CALIBRATION_FRAMES;
\* once complete it stays complete; and an update that leaves the warm-up
\* incomplete counts no stood-up frame and does not unlock.
C20_CalibrationAccumulates ==
    [][/\ calibration'.maxTorsoLength >= calibration.maxTorsoLength
       /\ calibration.isComplete =>
             /\ calibration'.isComplete
             /\ calibration'.framesCaptured = calibration.framesCaptured
       /\ ~calibration.isComplete =>
             /\ calibration'.framesCaptured = calibration.framesCaptured + 1
             /\ calibration'.isComplete <=>
                    calibration'.framesCaptured = CALIBRATION_FRAMES
       /\ ~calibration'.isComplete =>
             /\ standTimer' = 0
             /\ state.isSessionActive => state'.isSessionActive]_vars

\* A session locked during the warm-up, one frame before it completes.
C20_LockedDuringWarmUp ==
    /\ state.isSessionActive
    /\ ~calibration.isComplete
    /\ calibration.framesCaptured = CALIBRATION_FRAMES - 1
    /\ calibration.maxTorsoLength > 0

\* ------------------------------------------------------------------------
\* SpecPanel: the calibration panel through countdown and scan, and the manual
\* calibration of the upload page, on frames with and without a T-pose.
\* ------------------------------------------------------------------------
NextPanel ==
    \/ /\ \E h \in Heights : startSequence(h)
       /\ UNCHANGED << sessionVars, observerVars, decoderVars, analysisVars, ingestVars,
                       pageVars, bufferVars, featureVars, filterVars >>
    \/ /\ countdownTick
       /\ UNCHANGED << sessionVars, observerVars, decoderVars, analysisVars, ingestVars,
                       pageVars, bufferVars, featureVars, filterVars >>
    \/ /\ cancelSequence
       /\ UNCHANGED << sessionVars, observerVars, decoderVars, analysisVars, ingestVars,
                       pageVars, bufferVars, featureVars, filterVars >>
    \/ /\ \E id \in 1..MaxLoops, pose \in PanelFrames : scanTick(id, pose)
       /\ UNCHANGED << sessionVars, observerVars, decoderVars, analysisVars, ingestVars,
                       pageVars, bufferVars, featureVars, filterVars >>
    \/ /\ \E pose \in PanelFrames, h \in Heights : handleManualCalibration(pose, h)
       /\ UNCHANGED << sessionVars, observerVars, decoderVars, analysisVars, ingestVars,
                       pageVars, bufferVars, featureVars, filterVars >>

SpecPanel == Init /\ [][NextPanel]_vars

\* ------------------------------------------------------------------------
\* SpecFilter: the filter bank under samples at increasing, equal and earlier
\* timestamps, and resets.
\* ------------------------------------------------------------------------
FilterValues == { 200, 800 }
FilterTimes == { k * FrameMs : k \in 0..2 }

NextFilter ==
    \/ /\ \E i \in 1..BankSize, tMs \in FilterTimes, x \in FilterValues : filterSample(i, tMs, x)
       /\ UNCHANGED << sessionVars, observerVars, decoderVars, analysisVars, ingestVars,
                       pageVars, bufferVars, featureVars, calibrationStore, panelVars >>
    \/ /\ \E now \in FilterTimes, xs \in [ 1..BankSize -> FilterValues ] : normalizeResults(now, xs)
       /\ UNCHANGED << sessionVars, observerVars, decoderVars, analysisVars, ingestVars,
                       pageVars, bufferVars, featureVars, calibrationStore, panelVars >>
    \/ /\ \E now \in FilterTimes : normalizeEmpty(now)
       /\ UNCHANGED << sessionVars, observerVars, decoderVars, analysisVars, ingestVars,
                       pageVars, bufferVars, featureVars, calibrationStore, panelVars >>
    \/ /\ resetFilters
       /\ UNCHANGED << sessionVars, observerVars, decoderVars, analysisVars, ingestVars,
                       pageVars, bufferVars, featureVars, calibrationStore, panelVars >>

SpecFilter == Init /\ [][NextFilter]_vars

\* ------------------------------------------------------------------------
\* SpecStood: slow lifts with the subject upright with the arms hanging, one
\* arm overhead or both arms overhead, or hinged over the bell.
\* ------------------------------------------------------------------------
StoodPhases == { "STANDING", "HIKE", "LOCKOUT", "DROP" }
StoodPoses == { PoseStand, PoseHingeL, PoseOverhead, PoseArmsUp }

NextStood ==
    \E phase \in StoodPhases, pose \in StoodPoses :
        /\ WarmUp(phase, pose, 0)
        /\ update(phase, pose, 0)
        /\ lastPose' = pose
        /\ UNCHANGED << scriptPos, scriptBase, liftStage, chainPos, stoodRun, otherSideSeen,
                        lastUnlock, parkObservers, decoderVars, analysisVars, serviceVars >>

SpecStood == Init /\ [][NextStood]_vars

\* ------------------------------------------------------------------------
\* SpecPark: sets of lifts with pauses over the bell, slow or with a
\* velocity spike, with the subject upright or hinged over the bell.
\* ------------------------------------------------------------------------
ParkPhases == { "STANDING", "HIKE", "LOCKOUT", "CATCH", "DROP", "PARK" }
ParkPoses == { PoseStand, PoseHingeL }
ParkVelocities == { 0, 400 }

NextPark ==
    \E phase \in ParkPhases, pose \in ParkPoses, v \in ParkVelocities :
        /\ WarmUp(phase, pose, v)
        /\ update(phase, pose, v)
        /\ ObserveStill(pose, v)
        /\ ObserveHike(phase)
        /\ UNCHANGED << scriptPos, scriptBase, liftStage, chainPos, stoodRun, otherSideSeen,
                        lastUnlock, lastPose, decoderVars, analysisVars, serviceVars >>

SpecPark == Init /\ [][NextPark]_vars

\* ========================================================================
\* Claims about the frame pipeline
\* ========================================================================

\* C21: at most one processFrame is in flight; a tick that arrives while one
\* is in flight counts a dropped frame and starts nothing; and the frames
\* processFrame takes are taken in arrival order, each at its own tick.
C21_OneFrameInFlight ==
    [][/\ Cardinality(inFlight') <= 1
       /\ (tickNo' # tickNo /\ inFlight # {}) =>
             /\ droppedFrames' = droppedFrames + 1
             /\ inFlight' = inFlight
             /\ lastStarted' = lastStarted
       /\ lastStarted' # lastStarted =>
             /\ lastStarted' = tickNo'
             /\ tickNo' = tickNo + 1
             /\ droppedFrames' = droppedFrames]_vars

\* A tick has been dropped while a later frame is being processed.
C21_DroppedWhileBusy ==
    /\ droppedFrames > 0
    /\ Cardinality(inFlight) = 1
    /\ frameCount > 0

\* C22: every frame that arrives gets its session update (counted here by
\* the calibration accumulator, which update() advances once per call during
\* the warm-up), whether or not the previous frame is still being processed;
\* only a frame without a pose or without valid features is excused.
C22_EveryFrameUpdated ==
    inFlight = {} => calibration.framesCaptured + excused = arrived

C23_InvalidFrameSkipped ==
    [][(excused' = excused + 1 /\ frameCount' = frameCount + 1) =>
          /\ processOutcome' = "returned"
          /\ reportedPhase' = reportedPhase
          /\ UNCHANGED << bufIdx, decoderState, sessionVars, featureVars >>]_vars

\* C24: while fewer than FrameWindow feature vectors are buffered, a frame
\* with valid features ends without an error, leaves the reported phase and
\* the persisted decoder state as they were, and still updates the session
\* state machine with the last known phase.
C24_BufferingIsNoOp ==
    [][(bufIdx' # bufIdx /\ bufIdx' < FrameWindow) =>
          /\ processOutcome' = "returned"
          /\ reportedPhase' = reportedPhase
          /\ currentPhase' = currentPhase
          /\ decoderState' = decoderState
          /\ state'.lastPhase = currentPhase
          /\ calibration'.framesCaptured = calibration.framesCaptured + 1]_vars

\* ========================================================================
\* Claims about calibration and smoothing
\* ========================================================================

\* C25: a calibration attempt on a frame that shows the body leaves the
\* calibration store with a positive pxPerMeter and a quality other than
\* none, and an attempt turned away for lack of a visible body leaves the
\* store as it was.
C25_CalibrationSetsScale ==
    [][/\ (calibrateOutcome' # calibrateOutcome /\ calibrateOutcome' # "rejected") =>
             (calibrationStore'.pxPerMeter > 0 /\ calibrationStore'.quality # "none")
       /\ (calibrateOutcome' = "rejected" /\ UNCHANGED << panelPhase, countdownValue, timers,
                                                           scanLoops, tPoseProgress >>) =>
             calibrationStore' = calibrationStore]_vars

\* Filter i of the bank is called in this step.
called(i) == filterIn'[i].n # filterIn[i].n

\* The fields of a new filter after one filter(tMs, x) call.
fedOnly(tMs, x) == [ xPrev |-> << x >>, dxPrev |-> << 0 >>, tPrev |-> << tMs >> ]

\* C26: the first filter() call on a new or reset filter returns the raw
\* input and leaves it as the previous value, with derivative zero and the
\* timestamp of the call.
C26_FirstSamplePassesThrough ==
    [][\A i \in 1..BankSize :
          (called(i) /\ filters[i] = freshFilter) =>
             /\ filterOut'[i] = filterIn'[i].x
             /\ filters'[i] = fedOnly(filterIn'[i].tMs, filterIn'[i].x)]_vars

\* A filter that had been fed before was reset and fed again.
C26_FirstSampleAfterReset ==
    \E i \in 1..BankSize :
        /\ filterIn[i].n >= 2
        /\ filterIn[i].pre = freshFilter
        /\ filterIn[i].x # 0
        /\ filterOut[i] = filterIn[i].x
        /\ filters[i] = fedOnly(filterIn[i].tMs, filterIn[i].x)

\* C27 as stated: a sample whose timestamp is that of the previous sample or
\* an earlier one is answered with the previous filtered value, and the
\* fields of the filter stay as they were.
C27_NoElapsedTimeHolds ==
    [][\A i \in 1..BankSize :
          (called(i) /\ filters[i] # freshFilter /\ filterIn'[i].tMs <= filters[i].tPrev[1]) =>
             /\ filterOut'[i] = filters[i].xPrev[1]
             /\ filters'[i] = filters[i]]_vars

\* C27: a sample whose timestamp is that of the previous sample is answered
\* with the previous filtered value, and the fields of the filter stay as
\* they were.
C27_ZeroElapsedTimeHolds ==
    [][\A i \in 1..BankSize :
          (called(i) /\ filters[i] # freshFilter /\ filterIn'[i].tMs = filters[i].tPrev[1]) =>
             /\ filterOut'[i] = filters[i].xPrev[1]
             /\ filters'[i] = filters[i]]_vars

\* A sample with a new value arrived at the timestamp of the previous one.
C27_SameTimestampNewValue ==
    \E i \in 1..BankSize :
        /\ filterIn[i].n >= 2
        /\ filterIn[i].pre # freshFilter
        /\ filterIn[i].pre.tPrev = << filterIn[i].tMs >>
        /\ filterIn[i].pre.xPrev # << filterIn[i].x >>
        /\ filterOut[i] = filterIn[i].pre.xPrev[1]
        /\ filters[i] = filterIn[i].pre

\* C28 as stated: a first sample, and a sample whose timestamp is that of
\* the previous sample or an earlier one, pass through unchanged and leave
\* the filter as a new filter fed only this sample, for every filter of the bank.
C28_NoElapsedTimeResets ==
    [][\A i \in 1..BankSize :
          (called(i) /\ (filters[i] = freshFilter \/ filterIn'[i].tMs <= filters[i].tPrev[1])) =>
             /\ filterOut'[i] = filterIn'[i].x
             /\ filters'[i] = fedOnly(filterIn'[i].tMs, filterIn'[i].x)]_vars

\* C28: a first sample, and a sample whose timestamp is earlier than that of
\* the previous sample, pass through unchanged and leave the filter as a new
\* filter fed only this sample, for every filter of the bank whatever the
\* other filters hold.
C28_BackwardTimeResets ==
    [][\A i \in 1..BankSize :
          (called(i) /\ (filters[i] = freshFilter \/ filterIn'[i].tMs < filters[i].tPrev[1])) =>
             /\ filterOut'[i] = filterIn'[i].x
             /\ filters'[i] = fedOnly(filterIn'[i].tMs, filterIn'[i].x)
             /\ \A j \in 1..BankSize : ~called(j) => filters'[j] = filters[j]]_vars

\* One filter has restarted on an earlier timestamp with a new value while
\* another keeps what a later sample left.
C28_OneFilterRestarted ==
    \E i, j \in 1..BankSize :
        /\ filterIn[i].pre # freshFilter
        /\ filterIn[i].tMs < filterIn[i].pre.tPrev[1]
        /\ filterIn[i].pre.xPrev # << filterIn[i].x >>
        /\ filterOut[i] = filterIn[i].x
        /\ filters[i] = fedOnly(filterIn[i].tMs, filterIn[i].x)
        /\ filters[j] # freshFilter
        /\ filters[j] = fedOnly(filterIn[j].tMs, filterIn[j].x)
        /\ filters[j].tPrev[1] > filterIn[i].tMs

\* Both wrists of the pose are above the hips (y grows downward).
wristsAboveHips(pose) == pose.y15 < pose.y23 /\ pose.y16 < pose.y24

\* Both wrists of the pose are below the hips.
wristsBelowHips(pose) == pose.y15 > pose.y23 /\ pose.y16 > pose.y24

\* The torso of the pose is longer than RESET_TORSO_RATIO (in hundredths) of
\* the longest torso of the calibration that the update tests it against.
torsoExtended(pose) ==
    /\ runAutoCalibration(Engine, pose).calibration.isComplete
    /\ 100 * Abs(pose.y11 - pose.y23) >
          runAutoCalibration(Engine, pose).calibration.maxTorsoLength * RESET_TORSO_RATIO

\* The update of this step found the subject stood up: the standing count
\* went up, or the session was ended by it.
stoodUpCounted ==
    \/ standTimer' > standTimer
    \/ state.isSessionActive /\ ~state'.isSessionActive

\* C30 as stated: the standing count of a session advances, or ends the
\* session, only on a pose whose torso is extended and whose wrists are both
\* above the hips.
C30_StoodUpWristsAbove ==
    [][stoodUpCounted => (torsoExtended(lastPose') /\ wristsAboveHips(lastPose'))]_vars

\* C30: the standing count of a session advances, or ends the session, only
\* on a pose whose torso is extended and whose wrists are both below the hips.
C30_StoodUpWristsBelow ==
    [][stoodUpCounted => (torsoExtended(lastPose') /\ wristsBelowHips(lastPose'))]_vars

\* A false start is being counted down with the arms hanging.
C30_CountingArmsDown ==
    /\ state.isSessionActive
    /\ state.repCount = 0
    /\ standTimer > 1
    /\ lastPose = PoseStand

\* ------------------------------------------------------------------------
\* The upload page (routes/upload/+page.svelte) beside the frame loop, and
\* the detector behind poseService.process (pose.ts:80-91).  Each call of
\* process registers its own callback with the detector, in place of the one
\* held, and sends one image; the detector answers the images in the order
\* sent, and each result goes to the callback it holds at that time.  Frames
\* in flight are named by their tick number, the handlers of the page by the
\* numbers below.
\* ------------------------------------------------------------------------
\* Animation frames followed while the page is open.
UploadTicks == 3

\* handleVideoLoaded's static capture.
CaptureCall == -1
\* handleManualCalibration.
CalibrateCall == -2

\* The images this step of the frame loop sent to the detector.
framesBegun == IF lastStarted' # lastStarted THEN 1 ELSE 0

withCall(c, stage) ==
    [ d \in DOMAIN pageCalls \cup { c } |-> IF d = c THEN stage ELSE pageCalls[d] ]

withoutCall(c) == [ d \in DOMAIN pageCalls \ { c } |-> pageCalls[d] ]

\* handleVideoLoaded (lines 84-116) up to the await of its static capture:
\* startFrameLoop(), which returns at once if the loop is active and else
\* runs loop() and with it processFrame up to its own await, and then
\* poseService.process(videoElement).
handleVideoLoaded(playing) ==
    /\ CaptureCall \notin DOMAIN pageCalls
    /\ IF isActive THEN UNCHANGED << ingestVars, featureVars, storeVars >>
       ELSE startFrameLoop(playing)
    /\ pageCalls' = withCall(CaptureCall, "pose")
    /\ onResults' = CaptureCall
    /\ sent' = sent + framesBegun + 1

\* handleManualCalibration (lines 118-123) up to its await.
confirmPressed ==
    /\ CalibrateCall \notin DOMAIN pageCalls
    /\ pageCalls' = withCall(CalibrateCall, "pose")
    /\ onResults' = CalibrateCall
    /\ sent' = sent + 1
    /\ UNCHANGED << ingestVars, featureVars, storeVars >>

\* An animation frame of the loop; a frame it takes goes to the detector
\* (videoIngest.ts:263, pose.ts:84-89).
loopTick(playing) ==
    /\ tickNo < UploadTicks
    /\ loop(playing)
    /\ onResults' = IF framesBegun = 1 THEN tickNo' ELSE onResults
    /\ sent' = sent + framesBegun
    /\ UNCHANGED pageCalls

\* A result of the detector reaches the callback of a frame of the loop
\* (pose.ts:84-88).
resultToFrame ==
    /\ sent > 0
    /\ onResults \in inFlight
    /\ poseResolved(onResults)
    /\ sent' = sent - 1
    /\ UNCHANGED << pageCalls, onResults >>

\* A result reaches the callback of the static capture, which goes on to
\* analysisService.process (lines 95-97).
resultToCapture ==
    /\ sent > 0
    /\ onResults = CaptureCall
    /\ CaptureCall \in DOMAIN pageCalls
    /\ pageCalls[CaptureCall] = "pose"
    /\ pageCalls' = withCall(CaptureCall, "analysis")
    /\ sent' = sent - 1
    /\ UNCHANGED << onResults, ingestVars, featureVars, storeVars >>

\* A result reaches the callback of handleManualCalibration, which runs to
\* its end (lines 125-138).
resultToCalibrate(pose, heightInches) ==
    /\ sent > 0
    /\ onResults = CalibrateCall
    /\ CalibrateCall \in DOMAIN pageCalls
    /\ handleManualCalibration(pose, heightInches)
    /\ pageCalls' = withoutCall(CalibrateCall)
    /\ sent' = sent - 1
    /\ UNCHANGED << onResults, ingestVars, featureVars, filterVars >>

\* A result reaches a callback whose promise is settled already: resolve()
\* has no effect.
resultToSettled ==
    /\ sent > 0
    /\ onResults \in inFlight => frameStage[onResults] # "pose"
    /\ onResults \in DOMAIN pageCalls => pageCalls[onResults] # "pose"
    /\ sent' = sent - 1
    /\ UNCHANGED << onResults, pageCalls, ingestVars, featureVars, storeVars >>

\* The end of the static capture (lines 95-112): overlay.phase takes what
\* process returned, a rejection goes to the catch block.
captureDone ==
    /\ pageCalls' = withoutCall(CaptureCall)
    /\ ObserveReported
    /\ overlayPhase' = IF processOutcome' = "returned" THEN currentPhase' ELSE overlayPhase
    /\ UNCHANGED << isActive, isProcessingFrame, droppedFrames, frameCount, frameStage, tickNo,
                    arrived, excused, lastStarted, rafPending, sent, onResults, storeVars >>

\* analysisService.process(initialPose) on a frame with valid features.
captureAnalysed(frame) ==
    /\ CaptureCall \in DOMAIN pageCalls
    /\ pageCalls[CaptureCall] = "analysis"
    /\ \E v \in { velocities(lastState, featureState(frame, state.activeSide),
                              tickNo * FrameMs - lastTime, calibrationStore.pxPerMeter) } :
          /\ extract(frame, state.activeSide, tickNo * FrameMs, v)
          /\ processWith(frame.pose, v.velocityMps, FALSE)
    /\ captureDone

\* analysisService.process(initialPose) on a frame without valid features.
captureSkipped(frame) ==
    /\ CaptureCall \in DOMAIN pageCalls
    /\ pageCalls[CaptureCall] = "analysis"
    /\ extractNull(frame, state.activeSide)
    /\ processInvalid
    /\ captureDone

\* ------------------------------------------------------------------------
\* SpecUpload: one video loaded into the upload page, the frame loop ticking
\* over it and the user confirming a calibration, the subject standing in
\* view or out of it.  SpecUploadFair adds that the detector answers every
\* image sent and that a call of analysisService.process comes to its end.
\* ------------------------------------------------------------------------
UploadFrames == { FullFrame(PoseStand), MkFrame(PoseStand, 0, 90, 90) }

\* A call of analysisService.process that is awaited comes to its end.  The
\* step for a frame without valid features is enabled whenever a call is
\* awaited, so weak fairness of it leaves no call awaited for ever.
analysisEnds ==
    \/ /\ \E f \in inFlight, frame \in UploadFrames : frameSkipped(f, frame)
       /\ UNCHANGED << bufferVars, observerVars, pc, callLogits, callSteps, callSeed, returned, prevReturned,
                       pageVars >>
    \/ /\ \E frame \in UploadFrames : captureSkipped(frame)
       /\ UNCHANGED << bufferVars, observerVars, pc, callLogits, callSteps, callSeed, returned, prevReturned >>

detectorAnswers ==
    \/ /\ resultToFrame
       /\ UNCHANGED << bufferVars, sessionVars, observerVars, decoderVars, analysisVars >>
    \/ /\ resultToCapture
       /\ UNCHANGED << bufferVars, sessionVars, observerVars, decoderVars, analysisVars >>
    \/ /\ \E pose \in UploadFrames, h \in Heights : resultToCalibrate(pose, h)
       /\ UNCHANGED << bufferVars, sessionVars, observerVars, decoderVars, analysisVars >>
    \/ /\ resultToSettled
       /\ UNCHANGED << bufferVars, sessionVars, observerVars, decoderVars, analysisVars >>

analysisSettles ==
    \/ analysisEnds
    \/ /\ \E f \in inFlight, frame \in UploadFrames : frameAnalysed(f, frame)
       /\ UNCHANGED << bufferVars, observerVars, pc, callLogits, callSteps, callSeed, returned, prevReturned,
                       pageVars >>
    \/ /\ \E frame \in UploadFrames : captureAnalysed(frame)
       /\ UNCHANGED << bufferVars, observerVars, pc, callLogits, callSteps, callSeed, returned, prevReturned >>

NextUpload ==
    \/ /\ ~isActive
       /\ \E playing \in BOOLEAN : handleVideoLoaded(playing)
       /\ UNCHANGED << bufferVars, sessionVars, observerVars, decoderVars, analysisVars >>
    \/ /\ confirmPressed
       /\ UNCHANGED << bufferVars, sessionVars, observerVars, decoderVars, analysisVars >>
    \/ /\ \E playing \in BOOLEAN : loopTick(playing)
       /\ UNCHANGED << bufferVars, sessionVars, observerVars, decoderVars, analysisVars >>
    \/ detectorAnswers
    \/ analysisSettles

SpecUpload == Init /\ [][NextUpload]_vars

SpecUploadFair == SpecUpload /\ WF_vars(detectorAnswers) /\ WF_vars(analysisEnds)

\* ------------------------------------------------------------------------
\* SpecBuffer: feature vectors handed to the classifier one after another,
\* the model configuration loaded.
\* ------------------------------------------------------------------------
FeatureVectors == [ 1..FeatureDim -> { 1, 2 } ]

NextBuffer ==
    /\ \E features \in FeatureVectors : addFrameCall(features)
    /\ UNCHANGED << sessionVars, observerVars, decoderVars, ingestVars, pageVars, featureVars,
                    storeVars >>

SpecBuffer == Init /\ [][NextBuffer]_vars

\* ========================================================================
\* Claims about parking, overlap, cancellation and the classifier buffer
\* ========================================================================

\* C31: isParked holds only in a locked session with a rep; it becomes true
\* only on an update that is the last of more than PARK_DURATION_FRAMES
\* updates in a row that found the subject hinged and still in such a
\* session; and once true it becomes false only on a velocity spike or a reset.
C31_ParkedDebounced ==
    [][/\ isParked' => (state'.isSessionActive /\ state'.repCount > 0)
       /\ (~isParked /\ isParked') => stillRun' > PARK_DURATION_FRAMES
       /\ (isParked /\ ~isParked') =>
             \/ Abs(state'.currentVelocity) > PARK_CANCEL_VELOCITY
             \/ ~state'.isSessionActive]_vars

\* A parked session whose subject has since left the bell.
C31_ParkedAfterLeaving ==
    /\ isParked
    /\ state.repCount > 0
    /\ stillRun = 0
    /\ parkTimer = 0

\* C38: in a locked session repCount never exceeds the number of updates
\* since the lock in which the phase changed to HIKE, and a rep is credited
\* only if the phase has changed to HIKE since the last rep, or since the
\* lock when there was none.
C38_OneRepPerHike ==
    [][/\ state'.isSessionActive => state'.repCount <= hikeEntries'
       /\ state'.repCount > state.repCount => hikedSinceRep]_vars
\* C32: while the frame loop has a frame in flight, no call of
\* poseService.process or analysisService.process made by the upload page
\* (the static capture, the manual calibration) is under way.
C32_NoOverlapAcrossCallers ==
    inFlight # {} => DOMAIN pageCalls = {}

\* C33: every processFrame comes to its end and clears isProcessingFrame,
\* also when poseService.process is called again before the result of an
\* earlier call has come, the detector answering every image sent.
C33_FrameEventuallyFinishes ==
    isProcessingFrame ~> ~isProcessingFrame

\* What a frame of the loop changes when it is done: the telemetry that
\* goes with onFrame, the overlay, the session and the decoder.
loopOutput == << frameCount, overlayPhase, sessionVars, decoderState >>

\* C34 as stated: once stopFrameLoop() has returned, and until the loop is
\* started again, no onFrame callback is delivered and the session, the
\* decoder and the overlay are not updated; and there is never more than
\* one chain of animation frames.
C34_NothingAfterStop ==
    /\ [][(~isActive /\ ~isActive') => UNCHANGED loopOutput]_vars
    /\ [](rafPending <= 1)

\* C34, amended: once stopFrameLoop() has returned, and until the loop is
\* started again, no animation frame is pending and no frame is begun; the
\* one frame that was in flight runs to its end, and only its end delivers
\* an onFrame callback or updates the session, the decoder or the overlay;
\* and there is never more than one chain of animation frames.
C34_OnlyFrameInFlightAfterStop ==
    /\ [][(~isActive /\ ~isActive') =>
            /\ lastStarted' = lastStarted
            /\ tickNo' = tickNo
            /\ inFlight' \subseteq inFlight
            /\ loopOutput' # loopOutput => (inFlight' # inFlight /\ Cardinality(inFlight) = 1)]_vars
    /\ [](rafPending <= 1 /\ (~isActive => rafPending = 0))

\* The loop has been started, stopped and started again, and is stopped
\* with a frame awaiting its analysis.
C34_StoppedWithFrameInFlight ==
    /\ ~isActive
    /\ tickNo >= 3
    /\ \E f \in inFlight : frameStage[f] = "analysis"

\* C35: the panel leaves 'setup' only through startSequence(), that is to
\* 'countdown' (a cancelled countdown never takes it to 'scan' later), and
\* at most one countdown interval is running.
C35_CancelStopsCountdown ==
    /\ [][panelPhase = "setup" => panelPhase' \in { "setup", "countdown" }]_vars
    /\ [](timers <= 1)

\* The phase changes of the self-timer (gemini1.md:58-61), cancel included.
PanelMoves ==
    { << "setup", "countdown" >>, << "countdown", "scan" >>, << "scan", "success" >>,
      << "success", "setup" >>, << "countdown", "setup" >>, << "scan", "setup" >> }

\* The scan loops that call completeCalibration in this step: the phase is
\* and stays 'scan' and the loop requests no further frame.
completing == IF panelPhase = "scan" /\ panelPhase' # "setup"
              THEN DOMAIN scanLoops \ DOMAIN scanLoops' ELSE {}

\* C36: the phase changes only along setup -> countdown -> scan -> success
\* -> setup or back to setup on cancel, and a scan loop calls
\* calibrateFromPose only in phase 'scan' when the T-pose has been held on
\* each of its ticks for REQUIRED_HOLD_MS; a failing tick restarts the hold.
C36_PanelStateMachine ==
    [][/\ panelPhase' # panelPhase => << panelPhase, panelPhase' >> \in PanelMoves
       /\ \A id \in completing :
             /\ scanLoops[id] >= 0
             /\ scanLoops[id] + ScanTickMs >= REQUIRED_HOLD_MS
             /\ tPoseProgress' = 100
       /\ \A id \in DOMAIN scanLoops \cap DOMAIN scanLoops' :
             (panelPhase = "scan" /\ scanLoops'[id] # scanLoops[id]) =>
                scanLoops'[id] \in { -1, 0, scanLoops[id] + ScanTickMs }]_vars

\* The last T vectors handed to addFrame, oldest first, laid out as the
\* buffer lays them out.
lastWindow ==
    [ i \in 1..(FrameWindow * FeatureDim) |->
        added[Len(added) - FrameWindow + ((i - 1) \div FeatureDim) + 1][((i - 1) % FeatureDim) + 1] ]

====
